---------------------------- MODULE Spec2Model ----------------------------
(***************************************************************************)
(* Client-side audio assembly pipeline of GemPodcast                       *)
(* (src/utils/audioUtils.ts): the sequence mixer mixPodcastSequence, the   *)
(* PCM decoder decodeBase64Audio, the WAV serializer audioBufferToWav and  *)
(* the MP3 framing of audioBufferToMp3; and the handlers of AudioSection   *)
(* that run them: handleGenerateAudio, handleVoicePreview and              *)
(* handleSendEmail.                                                        *)
(*                                                                         *)
(* Time is exact: one tick is 1/TicksPerSecond s, a common subdivision of  *)
(* the 24 kHz, 44.1 kHz and 48 kHz frame periods, so that every duration,  *)
(* start time and stop time the code computes is an integer.               *)
(*                                                                         *)
(* Platform objects are modelled by the fields the code reads and writes.  *)
(* ctx.createBuffer(c, n, r) is taken to allocate the n frames it is asked *)
(* for, for every n >= 0.                                                  *)
(***************************************************************************)
EXTENDS Integers, Sequences, FiniteSets, TLC

VARIABLES
    mixPc,          \* position of the mixPodcastSequence call
    mixArgs,        \* its seven arguments
    offlineCtx,     \* the OfflineAudioContext and the sources scheduled on it
    renderedBuffer, \* what startRendering resolved with
    codecPc,        \* position of the decode / serialize flow
    pcmBytes,       \* the bytes atob returned (decodeBase64Audio's input)
    audioBuffer,    \* the AudioBuffer decoded or handed to the serializer
    wavBlob,        \* the bytes audioBufferToWav returned
    legacyMix,      \* the arguments and the result of a mixAudioBuffers call
    mp3Result,      \* what audioBufferToMp3 did: the encoder calls, the blob
    loading,        \* AudioSection state: a generation is running
    error,          \* AudioSection state: the error shown, "null" for none
    audioUrl,       \* AudioSection state: the object URL of the published blob
    audioBlob,      \* AudioSection state: the published MP3 blob
    generations,    \* the invocations of handleGenerateAudio, in click order
    previews,       \* the invocations of handleVoicePreview, in click order
    previewLoading, \* AudioSection state: the role whose preview is loading
    playingPreview, \* AudioSection state: the preview that is playing
    transcoded,     \* the blob handleSendEmail last handed to blobToBase64
    emailSend,      \* the position of handleSendEmail, its recipient
    posted,         \* the payload last handed to the delivery endpoint
    fileReader,     \* the FileReader of a blobToBase64 call
    promise,        \* the promise that call returned
    store,          \* the IndexedDB object store: the entry under music_0..music_2
    musicSlots,     \* AudioSection state: the three music slots
    selectedMusicIndex, \* AudioSection state: the selected slot, -1 for none
    slotOps,        \* loadData and the handlers working on the slots
    slotMix         \* the background a handleGenerateAudio run handed to the mixer

vars == <<mixPc, mixArgs, offlineCtx, renderedBuffer,
          codecPc, pcmBytes, audioBuffer, wavBlob, mp3Result, legacyMix,
          loading, error, audioUrl, audioBlob, generations, previews,
          previewLoading, playingPreview, transcoded, emailSend, posted,
          fileReader, promise, store, musicSlots, selectedMusicIndex, slotOps, slotMix>>

mixVars == <<mixPc, mixArgs, offlineCtx, renderedBuffer>>
codecVars == <<codecPc, pcmBytes, audioBuffer, wavBlob, mp3Result, legacyMix>>
sectionVars == <<loading, error, audioUrl, audioBlob, generations, previews,
                 previewLoading, playingPreview, transcoded, emailSend, posted>>
emailVars == <<transcoded, emailSend, posted>>
ioVars == <<fileReader, promise>>
slotVars == <<store, musicSlots, selectedMusicIndex, slotOps, slotMix>>

----------------------------------------------------------------------------
(* Bounds of the model *)

\* buffer lengths 0..MaxTinyFrames are all present
MaxTinyFrames == 1
\* longer buffers have k * FrameStep frames, k = 1..MaxSteps
MaxSteps == 2
FrameStep == 24

----------------------------------------------------------------------------
(* Numbers *)

Min(a, b) == IF a < b THEN a ELSE b
Max(a, b) == IF a > b THEN a ELSE b

\* Math.ceil(n / d) for n >= 0, d > 0
CeilDiv(n, d) == (n + d - 1) \div d

\* A JavaScript number used as a volume: a finite value in hundredths, or
\* NaN, +Infinity, -Infinity.
Fin(n) == [k |-> "fin", v |-> n]
NaN == [k |-> "nan", v |-> 0]
PosInf == [k |-> "pinf", v |-> 0]
NegInf == [k |-> "ninf", v |-> 0]

\* isFinite(x)
IsFinite(x) == x.k = "fin"

\* x >= 0 on JavaScript numbers: false for NaN and -Infinity
GeZero(x) ==
    CASE x.k = "fin" -> x.v >= 0
      [] x.k = "pinf" -> TRUE
      [] OTHER -> FALSE

----------------------------------------------------------------------------
(* mixPodcastSequence *)

outputSampleRate == 44100
numberOfChannels == 2
\* the rate decodeBase64Audio tags its buffers with
sampleRate == 24000
\* the rate of the AudioContext that decodes the uploaded assets
AssetRate == 2 * sampleRate

TicksPerSecond == 160 * outputSampleRate

\* seconds-per-frame of a buffer, in ticks
FrameTicks(rate) == TicksPerSecond \div rate

Null == [null |-> TRUE]
Buffer(len, rate) == [null |-> FALSE, length |-> len, sampleRate |-> rate]

\* AudioBuffer.duration
Duration(b) == b.length * FrameTicks(b.sampleRate)

\* introBuffer ? introBuffer.duration : 0
DurationOrZero(b) == IF b = Null THEN 0 ELSE Duration(b)

TotalDurationNoOutro(introDur, voiceDur, outroDur) == introDur + voiceDur

TotalDuration(introDur, voiceDur, outroDur) == introDur + voiceDur + outroDur

\* 0.001 s
MinDuration == TicksPerSecond \div 1000

SafeDurationNoFloor(totalDuration) == totalDuration

\* Math.max(totalDuration, 0.001)
SafeDuration(totalDuration) == Max(totalDuration, MinDuration)

\* Math.ceil(safeDuration * outputSampleRate)
ContextLength(safeDuration) == CeilDiv(safeDuration, FrameTicks(outputSampleRate))

\* new OfflineAudioContext(channels, length, rate): a zero length is rejected
NewOfflineAudioContext(channels, length, rate) ==
    [ok |-> length >= 1, numberOfChannels |-> channels, length |-> length,
     sampleRate |-> rate, sources |-> <<>>]

SafeVolNoFiniteCheck(vol) == IF GeZero(vol) THEN vol ELSE Fin(0)

\* const safeVol = isFinite(vol) && vol >= 0 ? vol : 0
SafeVol(vol) == IF IsFinite(vol) /\ GeZero(vol) THEN vol ELSE Fin(0)

ScheduledStopUnguarded(startTime, stopTime) == stopTime

\* if (stopTime !== undefined) if (stopTime > startTime) source.stop(stopTime)
\* stopTime is {} when the argument is omitted, {t} when it is given
ScheduledStop(startTime, stopTime) == {t \in stopTime : t > startTime}

\* createSource(buffer, vol, startTime, stopTime, loop): the source node with
\* its gain node, as connected to the destination
CreateSource(track, buffer, vol, startTime, stopTime, loop) ==
    [track |-> track, buffer |-> buffer, loop |-> loop, gain |-> SafeVol(vol),
     start |-> startTime, stop |-> ScheduledStop(startTime, stopTime)]

VoiceStart(introDur) == introDur

BackgroundStart(introDur) == introDur

BackgroundStop(introDur, voiceDur) == introDur + voiceDur

OutroStartNoVoice(introDur, voiceDur) == introDur

OutroStart(introDur, voiceDur) == introDur + voiceDur

\* The sources lines 105-121 create, in the order they are created
ScheduleSources(a) ==
    LET introDur == DurationOrZero(a.introBuffer)
        voiceDur == Duration(a.voiceBuffer)
    IN  (IF a.introBuffer # Null
           THEN <<CreateSource("intro", a.introBuffer, a.introVolume, 0, {}, FALSE)>>
           ELSE <<>>)
        \o <<CreateSource("voice", a.voiceBuffer, Fin(100), VoiceStart(introDur), {}, FALSE)>>
        \o (IF a.backgroundBuffer # Null
              THEN <<CreateSource("background", a.backgroundBuffer, a.musicVolume,
                                  BackgroundStart(introDur),
                                  {BackgroundStop(introDur, voiceDur)}, TRUE)>>
              ELSE <<>>)
        \o (IF a.outroBuffer # Null
              THEN <<CreateSource("outro", a.outroBuffer, a.outroVolume,
                                  OutroStart(introDur, voiceDur), {}, FALSE)>>
              ELSE <<>>)

\* gainNode.gain.value = v and source.start(t) throw on a non-finite v and on
\* a negative t
SourceThrows(s) == ~IsFinite(s.gain) \/ s.start < 0

\* AudioBufferSourceNode playback: a source is audible from its start time;
\* a stop that was scheduled ends it; otherwise a looping source plays to the
\* end of the render and a one-shot source for its buffer's duration.
SourceEnd(s, renderEnd) ==
    LET natural == IF s.loop THEN Max(renderEnd, s.start) ELSE s.start + Duration(s.buffer)
    IN  IF s.stop = {} THEN natural ELSE Min(natural, CHOOSE t \in s.stop : TRUE)

\* The position in its buffer that source s plays at output time t of its
\* span: a looping source (loopStart = loopEnd = 0) wraps at the buffer's end
PlaybackOffset(s, t) ==
    IF s.loop THEN (t - s.start) % Duration(s.buffer) ELSE t - s.start

\* The half-open span [from, to) of output time in which source s is audible
\* in a render of renderEnd ticks, and the buffer position it has reached at
\* the span's last output sample time
Played(s, renderEnd) ==
    LET from == Min(s.start, renderEnd)
        to == Min(SourceEnd(s, renderEnd), renderEnd)
    IN  [track |-> s.track, gain |-> s.gain, from |-> from, to |-> to,
         lastOffset |-> IF to > from THEN PlaybackOffset(s, to - 1) ELSE 0]

\* offlineCtx.startRendering()
StartRendering(ctx) ==
    LET renderEnd == ctx.length * FrameTicks(ctx.sampleRate)
    IN  [numberOfChannels |-> ctx.numberOfChannels, length |-> ctx.length,
         sampleRate |-> ctx.sampleRate,
         played |-> [i \in 1..Len(ctx.sources) |-> Played(ctx.sources[i], renderEnd)]]

BufferLengths == (0..MaxTinyFrames) \cup {k * FrameStep : k \in 1..MaxSteps}

VoiceBuffers == {Buffer(n, sampleRate) : n \in BufferLengths}
AssetBuffers == {Buffer(n, AssetRate) : n \in BufferLengths}
BackgroundBuffers == {b \in AssetBuffers : b.length > 0}

Volumes == {NaN, PosInf, NegInf, Fin(0 - 50), Fin(0), Fin(15)}

MixArgs ==
    [voiceBuffer : VoiceBuffers,
     backgroundBuffer : BackgroundBuffers \cup {Null},
     introBuffer : AssetBuffers \cup {Null},
     outroBuffer : AssetBuffers \cup {Null},
     musicVolume : Volumes, introVolume : Volumes, outroVolume : Volumes]

NoCtx == [ok |-> FALSE, numberOfChannels |-> 0, length |-> 0, sampleRate |-> 0,
          sources |-> <<>>]
NoRender == [numberOfChannels |-> 0, length |-> 0, sampleRate |-> 0, played |-> <<>>]
NoArgs == [voiceBuffer |-> Null, backgroundBuffer |-> Null, introBuffer |-> Null,
           outroBuffer |-> Null, musicVolume |-> Fin(0), introVolume |-> Fin(0),
           outroVolume |-> Fin(0)]

\* The synchronous part of mixPodcastSequence, up to the await of
\* startRendering (lines 63-124)
MixPodcastSequence ==
    /\ mixPc = "idle"
    /\ \E a \in MixArgs :
         LET totalDuration == TotalDuration(DurationOrZero(a.introBuffer),
                                            Duration(a.voiceBuffer),
                                            DurationOrZero(a.outroBuffer))
             ctx == NewOfflineAudioContext(numberOfChannels,
                        ContextLength(SafeDuration(totalDuration)), outputSampleRate)
             sources == ScheduleSources(a)
             thrown == ~ctx.ok \/ \E i \in 1..Len(sources) : SourceThrows(sources[i])
         IN  /\ mixArgs' = a
             /\ offlineCtx' = [ctx EXCEPT !.sources = IF ctx.ok THEN sources ELSE <<>>]
             /\ mixPc' = IF thrown THEN "error" ELSE "rendering"
    /\ UNCHANGED <<renderedBuffer, codecVars, sectionVars, ioVars, slotVars>>

\* startRendering resolves and mixPodcastSequence returns (lines 124-125)
RenderComplete ==
    /\ mixPc = "rendering"
    /\ renderedBuffer' = StartRendering(offlineCtx)
    /\ mixPc' = "done"
    /\ UNCHANGED <<mixArgs, offlineCtx, codecVars, sectionVars, ioVars, slotVars>>

----------------------------------------------------------------------------
(* decodeBase64Audio *)

\* bounds of the decoder's and serializer's inputs
MaxPcmBytes == 3
MaxExtraBytes == 5
MaxTrackFrames == 2
MaxExtraFrames == 1
MaxBlocks == 2
MaxBase64Len == 2
MaxGenerations == 2
MaxPreviews == 1
MaxBlobBytes == 2
MaxSends == 1
MaxSlotOps == 2

\* A Float32 sample as an exact fraction num / den, den > 0; den = 0 stands
\* for the non-finite values: NaN (num = 0), +Infinity (num = 1) and
\* -Infinity (num = -1)
Ratio(n, d) == [num |-> n, den |-> d]

Thrown(e) == [null |-> FALSE, thrown |-> e]
IsThrown(b) == b \in {Thrown("RangeError"), Thrown("InvalidCharacterError")}

AlignedBufferNoTruncate(bytes) == bytes

\* let bufferToUse = bytes.buffer; if (bytes.byteLength % 2 !== 0)
\*   bufferToUse = bytes.buffer.slice(0, bytes.byteLength - 1)
AlignedBuffer(bytes) ==
    IF Len(bytes) % 2 # 0 THEN SubSeq(bytes, 1, Len(bytes) - 1) ELSE bytes

\* One element of an Int16Array over little-endian storage
Int16LittleEndian(lo, hi) ==
    LET u == lo + 256 * hi IN IF u >= 32768 THEN u - 65536 ELSE u

\* new Int16Array(buffer): the byte length must be a multiple of 2
Int16Array(buf) ==
    IF Len(buf) % 2 # 0
      THEN [ok |-> FALSE, data |-> <<>>]
      ELSE [ok |-> TRUE,
            data |-> [i \in 1..(Len(buf) \div 2) |->
                         Int16LittleEndian(buf[2 * i - 1], buf[2 * i])]]

PcmSampleOver32767(v) == Ratio(v, 32767)

\* channelData[i] = dataInt16[i] / 32768.0
PcmSample(v) == Ratio(v, 32768)

\* ctx.createBuffer(numChannels, frameCount, sampleRate) with its channel data
AudioBufferOf(channels, frameCount, rate) ==
    [null |-> FALSE, numberOfChannels |-> Len(channels), length |-> frameCount,
     sampleRate |-> rate, channels |-> channels]

\* decodeBase64Audio applied to the bytes of binaryString (lines 9-36)
DecodeBase64Audio(bytes) ==
    LET dataInt16 == Int16Array(AlignedBuffer(bytes))
        numChannels == 1
        frameCount == Len(dataInt16.data) \div numChannels
    IN  IF ~dataInt16.ok
          THEN Thrown("RangeError")
          ELSE AudioBufferOf(<<[i \in 1..frameCount |-> PcmSample(dataInt16.data[i])]>>,
                             frameCount, sampleRate)

----------------------------------------------------------------------------
(* audioBufferToWav *)

Unclamped(x) == x

\* Math.max(-1, Math.min(1, x)); NaN stays NaN, an infinity becomes +-1
Clamp(x) ==
    IF x.den = 0
      THEN (IF x.num > 0 THEN Ratio(1, 1) ELSE IF x.num < 0 THEN Ratio(0 - 1, 1) ELSE x)
    ELSE IF x.num > x.den THEN Ratio(x.den, x.den)
    ELSE IF x.num < 0 - x.den THEN Ratio(0 - x.den, x.den)
    ELSE x

\* (n / d) | 0 : truncation toward zero
TruncDiv(n, d) == IF n >= 0 THEN n \div d ELSE 0 - ((0 - n) \div d)

\* (0.5 + sample < 0 ? sample * 32768 : sample * 32767) | 0
\* A comparison with NaN is false and NaN | 0, Infinity | 0 are 0.
ScaleToInt16(x) ==
    IF x.den = 0 THEN 0
    ELSE IF x.den + 2 * x.num < 0
      THEN TruncDiv(x.num * 32768, x.den)
      ELSE TruncDiv(x.num * 32767, x.den)

\* The two bytes DataView.setInt16(_, v, true) stores
Int16Bytes(v) == LET u == v % 65536 IN <<u % 256, u \div 256>>

\* The little-endian bytes of an unsigned field of the given width
UintBytes(width, data) ==
    [i \in 1..width |-> (data \div (256 ^ (i - 1))) % 256]

\* view with bytes written from byte offset pos on
WriteAt(view, pos, bytes) ==
    [i \in 1..Len(view) |->
        IF i > pos /\ i <= pos + Len(bytes) THEN bytes[i - pos] ELSE view[i]]

\* setUint16 / setUint32: write at pos and advance pos
SetUint(st, width, data) ==
    [view |-> WriteAt(st.view, st.pos, UintBytes(width, data)), pos |-> st.pos + width]

RECURSIVE SetFields(_, _)
SetFields(st, fields) ==
    IF fields = <<>> THEN st
    ELSE SetFields(SetUint(st, fields[1][1], fields[1][2]), Tail(fields))

\* buffer.length * numOfChan * 2 + 44
WavLength(buffer) == buffer.length * buffer.numberOfChannels * 2 + 44

DataChunkLengthWithSizeField(length, pos) == length - pos

\* setUint32(length - pos - 4)
DataChunkLength(length, pos) == length - pos - 4

\* The header writes of lines 142-156 and the pos they leave
WriteHeader(buffer, length) ==
    LET numOfChan == buffer.numberOfChannels
        st == SetFields([view |-> [i \in 1..length |-> 0], pos |-> 0],
                  << <<4, 1179011410>>,             \* 0x46464952 "RIFF"
                     <<4, length - 8>>,
                     <<4, 1163280727>>,             \* 0x45564157 "WAVE"
                     <<4, 544501094>>,              \* 0x20746d66 "fmt "
                     <<4, 16>>,
                     <<2, 1>>,
                     <<2, numOfChan>>,
                     <<4, buffer.sampleRate>>,
                     <<4, buffer.sampleRate * 2 * numOfChan>>,
                     <<2, numOfChan * 2>>,
                     <<2, 16>>,
                     <<4, 1635017060>> >>)          \* 0x61746164 "data"
    IN  SetUint(st, 4, DataChunkLength(length, st.pos))

\* The inner for loop of lines 162-167 at frame pos: one setInt16 per channel
RECURSIVE WriteFrame(_, _, _, _)
WriteFrame(st, buffer, pos, i) ==
    IF i < buffer.numberOfChannels
      THEN LET sample == ScaleToInt16(Clamp(buffer.channels[i + 1][pos + 1]))
           IN  WriteFrame(
                   [view |-> WriteAt(st.view, 44 + st.offset, Int16Bytes(sample)),
                    offset |-> st.offset + 2,
                    writes |-> Append(st.writes,
                                 [frame |-> pos, channel |-> i,
                                  at |-> 44 + st.offset, sample |-> sample])],
                   buffer, pos, i + 1)
      ELSE st

\* while (pos < buffer.length) { ...; pos++ }
RECURSIVE WriteData(_, _, _)
WriteData(st, buffer, pos) ==
    IF pos < buffer.length
      THEN WriteData(WriteFrame(st, buffer, pos, 0), buffer, pos + 1)
      ELSE st

\* audioBufferToWav(buffer): the bytes of the blob, and the setInt16 calls the
\* data loop made. The loop goes on from the pos the header writes left.
AudioBufferToWav(buffer) ==
    LET length == WavLength(buffer)
        header == WriteHeader(buffer, length)
        data == WriteData([view |-> header.view, offset |-> 0, writes |-> <<>>],
                          buffer, header.pos)
    IN  [bytes |-> data.view, writes |-> data.writes]

----------------------------------------------------------------------------
(* atob: the base64 string of the payload as a sequence of characters, each
   a value 0..63 of the base64 alphabet, the padding character "=", or a
   character outside the alphabet *)

Pad == 64
InvalidChar == Pad + 1

AtobLenient(base64String) == [ok |-> TRUE, bytes |-> <<>>]

\* atob(base64String): up to two "=" are dropped from a string whose length
\* is a multiple of 4; a remaining character outside the alphabet, or a
\* length of 1 mod 4, throws InvalidCharacterError; every 4 characters give
\* 3 bytes, and 2 or 3 trailing characters give 1 or 2 bytes
Atob(base64String) ==
    LET n == Len(base64String)
        data ==
            IF n > 0 /\ n % 4 = 0 /\ base64String[n] = Pad
              THEN (IF base64String[n - 1] = Pad
                      THEN SubSeq(base64String, 1, n - 2)
                      ELSE SubSeq(base64String, 1, n - 1))
              ELSE base64String
        ByteAt(k) ==
            LET bit == 8 * (k - 1)
                window == data[(bit \div 6) + 1] * 64 + data[(bit \div 6) + 2]
            IN  (window \div (2 ^ (4 - (bit % 6)))) % 256
    IN  IF Len(data) % 4 = 1 \/ \E i \in 1..Len(data) : data[i] \notin 0..63
          THEN [ok |-> FALSE, bytes |-> <<>>]
          ELSE [ok |-> TRUE, bytes |-> [k \in 1..((Len(data) * 6) \div 8) |-> ByteAt(k)]]

\* decodeBase64Audio(base64String, ctx) from its first line
DecodeBase64String(base64String) ==
    IF ~Atob(base64String).ok
      THEN Thrown("InvalidCharacterError")
      ELSE DecodeBase64Audio(Atob(base64String).bytes)

----------------------------------------------------------------------------
(* audioBufferToMp3 *)

sampleBlockSize == 1152
kbps == 320

\* Storing a number into an Int16Array element: truncated (done by the
\* scaling operators), then wrapped into -32768..32767
Int16Store(v) == ((v + 32768) % 65536) - 32768

\* l < 0 ? l * 32768 : l * 32767, as the integer the store truncates it to;
\* NaN and the infinities store 0
ScaleForMp3(x) ==
    IF x.den = 0 THEN 0
    ELSE IF x.num < 0
      THEN TruncDiv(x.num * 32768, x.den)
      ELSE TruncDiv(x.num * 32767, x.den)

\* raw[k] of a Float32Array, k from 0: reading past the end gives undefined,
\* which the arithmetic turns into NaN
ElementAt(raw, k) == IF k + 1 \in DOMAIN raw THEN raw[k + 1] ELSE Ratio(0, 0)

ChunkLenPadded(length, i) == sampleBlockSize

\* const chunkLen = Math.min(sampleBlockSize, length - i)
ChunkLen(length, i) == Min(sampleBlockSize, length - i)

\* The inner loop of lines 212-218 over one channel: the values scaled, and
\* the Int16Array elements they are stored as
ScaledChunk(raw, i, chunkLen) ==
    [j \in 1..chunkLen |-> ScaleForMp3(Clamp(ElementAt(raw, i + j - 1)))]

StoredChunk(raw, i, chunkLen) ==
    [j \in 1..chunkLen |-> Int16Store(ScaleForMp3(Clamp(ElementAt(raw, i + j - 1))))]

\* One pass of the loop body at frame i: the call of mp3encoder.encodeBuffer
EncodeBufferCall(channels, rawLeft, rawRight, length, i) ==
    LET chunkLen == ChunkLen(length, i)
    IN  [op |-> "encodeBuffer", at |-> i,
         left |-> StoredChunk(rawLeft, i, chunkLen),
         right |-> IF channels = 1 THEN <<>> ELSE StoredChunk(rawRight, i, chunkLen),
         scaled |-> ScaledChunk(rawLeft, i, chunkLen)
                      \o (IF channels = 1 THEN <<>> ELSE ScaledChunk(rawRight, i, chunkLen))]

\* for (let i = 0; i < length; i += sampleBlockSize) { ... }
RECURSIVE EncodeLoop(_, _, _, _, _)
EncodeLoop(channels, rawLeft, rawRight, length, i) ==
    IF i < length
      THEN <<EncodeBufferCall(channels, rawLeft, rawRight, length, i)>>
             \o EncodeLoop(channels, rawLeft, rawRight, length, i + sampleBlockSize)
      ELSE <<>>

FlushCall == [op |-> "flush", at |-> 0, left |-> <<>>, right |-> <<>>, scaled |-> <<>>]

\* Lines 194-240: the encoder created, the calls on it in order, the blob
EncodeAll(buffer) ==
    LET channels == buffer.numberOfChannels
        rawLeft == buffer.channels[1]
        rawRight == IF channels > 1 THEN buffer.channels[2] ELSE rawLeft
        length == Len(rawLeft)
    IN  [thrown |-> FALSE,
         encoder |-> {[channels |-> channels, sampleRate |-> buffer.sampleRate,
                       kbps |-> kbps]},
         log |-> Append(EncodeLoop(channels, rawLeft, rawRight, length, 0), FlushCall),
         blob |-> {[type |-> "audio/mp3"]}]

AudioBufferToMp3Unguarded(buffer, lamejs) == EncodeAll(buffer)

\* audioBufferToMp3(buffer) with window.lamejs loaded or not: whether it
\* threw, the encoder it created, its calls on the encoder, and its blob

AudioBufferToMp3(buffer, lamejs) ==
    IF ~lamejs
      THEN [thrown |-> TRUE, encoder |-> {}, log |-> <<>>, blob |-> {}]
      ELSE EncodeAll(buffer)

NoMp3 == [thrown |-> FALSE, encoder |-> {}, log |-> <<>>, blob |-> {}]

----------------------------------------------------------------------------
(* mixAudioBuffers, the two-track mixer of the earlier AudioSection *)

\* getChannelData(c % numberOfChannels)[i] of a buffer, c and i from 0
ChannelSample(buffer, c, i) == buffer.channels[(c % buffer.numberOfChannels) + 1][i + 1]

\* voiceSample + musicSample * musicVolume, and in the last fadeLength frames
\* voiceSample + musicSample * musicVolume * (remaining / fadeLength)
MixedSample(voiceSample, musicSample, musicVolume, remaining, fadeLength) ==
    IF musicSample.den = 0
      THEN \* NaN * v = NaN, Infinity * 0 = NaN, Infinity * v = Infinity (v > 0)
           (IF musicSample.num = 0 \/ musicVolume.num = 0 THEN Ratio(0, 0)
            ELSE musicSample)
    ELSE IF remaining < fadeLength
      THEN Ratio(voiceSample.num * musicSample.den * musicVolume.den * fadeLength
                   + musicSample.num * musicVolume.num * remaining * voiceSample.den,
                 voiceSample.den * musicSample.den * musicVolume.den * fadeLength)
    ELSE Ratio(voiceSample.num * musicSample.den * musicVolume.den
                 + musicSample.num * musicVolume.num * voiceSample.den,
               voiceSample.den * musicSample.den * musicVolume.den)

\* if (mixedSample > 1) mixedSample = 1; if (mixedSample < -1) mixedSample = -1
\* Both comparisons are false for NaN.
ClampMixed(mixedSample) ==
    IF mixedSample.den = 0
      THEN (IF mixedSample.num > 0 THEN Ratio(1, 1)
            ELSE IF mixedSample.num < 0 THEN Ratio(0 - 1, 1) ELSE mixedSample)
    ELSE IF mixedSample.num > mixedSample.den THEN Ratio(1, 1)
    ELSE IF mixedSample.num < 0 - mixedSample.den THEN Ratio(0 - 1, 1)
    ELSE mixedSample

\* mixAudioBuffers(voiceBuffer, musicBuffer, musicVolume, ctx)
MixAudioBuffers(voiceBuffer, musicBuffer, musicVolume) ==
    IF musicBuffer = Null THEN voiceBuffer
    ELSE LET outputLength == voiceBuffer.length
             outputChannels == Max(voiceBuffer.numberOfChannels, musicBuffer.numberOfChannels)
             fadeLength == 2 * voiceBuffer.sampleRate
             OutData(c) ==
                 [k \in 1..outputLength |->
                ClampMixed(MixedSample(ChannelSample(voiceBuffer, c, k - 1),
                                       ChannelSample(musicBuffer, c, (k - 1) % musicBuffer.length),
                                       musicVolume, outputLength - (k - 1), fadeLength))]
         IN  AudioBufferOf([c \in 1..outputChannels |-> OutData(c - 1)],
                           outputLength, voiceBuffer.sampleRate)

NoLegacyMix == [voiceBuffer |-> Null, musicBuffer |-> Null, musicVolume |-> Ratio(0, 1),
                mixed |-> Null]

----------------------------------------------------------------------------
(* Inputs of the decoder and the serializer *)

ByteValues == {0, 1, 64, 128, 192, 255}

RECURSIVE SeqsUpTo(_, _)
SeqsUpTo(S, n) ==
    IF n = 0 THEN {<<>>}
    ELSE LET shorter == SeqsUpTo(S, n - 1)
         IN  shorter \cup {Append(q, x) : q \in {r \in shorter : Len(r) = n - 1}, x \in S}

\* A payload long enough for the serializer's loop to run: n bytes of a ramp
LongPcm(n) == [i \in 1..n |-> (i * 37) % 256]

PcmPayloads ==
    SeqsUpTo(ByteValues, MaxPcmBytes)
      \cup {LongPcm(2 * 44 + j) : j \in 0..MaxExtraBytes}

SampleValues ==
    {Ratio(0 - 3, 2), Ratio(0 - 3, 4), Ratio(0 - 1, 2), Ratio(0 - 1, 4),
     Ratio(0, 4), Ratio(1, 2), Ratio(3, 2)}

\* The frames of a long stereo track: a pattern over SampleValues' range
LongChannel(c, n) == [i \in 1..n |-> Ratio(((i * 7 + c * 3) % 9) - 4, 4)]

\* Stereo buffers as generateProceduralTrack returns them: 2 channels at the
\* context's rate, samples computed with Math.random() noise
TrackBuffers ==
    {AudioBufferOf(<<p[1], p[2]>>, Len(p[1]), AssetRate) :
        p \in {q \in SeqsUpTo(SampleValues, MaxTrackFrames)
                       \X SeqsUpTo(SampleValues, MaxTrackFrames) : Len(q[1]) = Len(q[2])}}
      \cup {AudioBufferOf(<<LongChannel(0, n), LongChannel(1, n)>>, n, AssetRate) :
              n \in 44..(44 + MaxExtraFrames)}

\* Payloads as the service may return them, well-formed or not
Base64Strings == SeqsUpTo({42, Pad, InvalidChar}, MaxBase64Len)

\* Sample values over the whole Float32 range: out of [-1, 1], NaN, infinite
WildValues ==
    <<Ratio(3, 2), Ratio(0, 0), Ratio(0 - 1, 4), Ratio(1, 0), Ratio(0 - 3, 2),
      Ratio(0 - 1, 0), Ratio(1, 2), Ratio(0 - 1, 1), Ratio(1, 1), Ratio(0 - 3, 4)>>

WildChannel(c, n) == [i \in 1..n |-> WildValues[((i * 3 + c) % Len(WildValues)) + 1]]

\* Decoded voices: mono at 24 kHz, a few frames long
LegacyVoices ==
    {AudioBufferOf(<<LongChannel(c, n)>>, n, sampleRate) :
        c \in 0..1, n \in 0..MaxTrackFrames}

\* A decoded voice longer than the 2-second fade by MaxExtraFrames frames
LongVoice ==
    AudioBufferOf(<<LongChannel(0, 2 * sampleRate + MaxExtraFrames)>>,
                  2 * sampleRate + MaxExtraFrames, sampleRate)

\* Music: generated (stereo), or decoded from the user's file (mono or
\* stereo, samples of every kind a 32-bit float file can hold)
LegacyMusic ==
    {AudioBufferOf(<<LongChannel(2, n)>>, n, sampleRate) : n \in 1..MaxTrackFrames}
      \cup {AudioBufferOf(<<LongChannel(3, n), LongChannel(4, n)>>, n, sampleRate) :
               n \in 1..MaxTrackFrames}
      \cup {AudioBufferOf(<<WildChannel(c, n)>>, n, sampleRate) :
               c \in {0, 8}, n \in 1..MaxTrackFrames}

\* The volume slider's values
LegacyVolumes == {Ratio(0, 2), Ratio(1, 2), Ratio(2, 2)}

\* The calls of mixAudioBuffers: every short voice with every music, and the
\* long voice with no music and with one mono track
LegacyCalls ==
    {<<v, m, w>> : v \in LegacyVoices, m \in LegacyMusic \cup {Null}, w \in LegacyVolumes}
      \cup {<<LongVoice, m, Ratio(1, 2)>> :
               m \in {Null, AudioBufferOf(<<LongChannel(2, MaxTrackFrames)>>,
                                          MaxTrackFrames, sampleRate)}}

\* Buffers that cross the serializer's header-length frame index with
\* samples of every kind
WildTrackBuffers ==
    {AudioBufferOf(<<WildChannel(0, n), WildChannel(1, n)>>, n, AssetRate) :
        n \in (44 + 9)..(44 + 9 + MaxExtraFrames)}

BlockLengths ==
    {n \in {k * sampleBlockSize + d : k \in 0..MaxBlocks, d \in {0 - 1, 0, 1}} : n >= 0}

\* Buffers handed to the encoder: the stereo 44.1 kHz render of the mixer, or
\* a mono buffer, of lengths around the multiples of the block size
MixedBuffers ==
    {AudioBufferOf(<<LongChannel(0, n), LongChannel(1, n)>>, n, outputSampleRate) :
        n \in BlockLengths}
      \cup {AudioBufferOf(<<WildChannel(0, n), WildChannel(1, n)>>, n, outputSampleRate) :
               n \in BlockLengths}
      \cup {AudioBufferOf(<<WildChannel(2, n)>>, n, sampleRate) : n \in BlockLengths}

NoWav == [bytes |-> <<>>, writes |-> <<>>]

\* const buffer = await decodeBase64Audio(base64, ctx)
DecodeVoice ==
    /\ codecPc = "idle"
    /\ \E bytes \in PcmPayloads :
         /\ pcmBytes' = bytes
         /\ audioBuffer' = DecodeBase64Audio(bytes)
         /\ codecPc' = IF IsThrown(DecodeBase64Audio(bytes)) THEN "error" ELSE "decoded"
    /\ UNCHANGED <<wavBlob, mp3Result, legacyMix, mixVars, sectionVars, ioVars, slotVars>>

\* const buffer = generateProceduralTrack(preset, 5, ctx)
GenerateTrack ==
    /\ codecPc = "idle"
    /\ \E buffer \in TrackBuffers \cup WildTrackBuffers :
         /\ audioBuffer' = buffer
         /\ codecPc' = "generated"
    /\ UNCHANGED <<pcmBytes, wavBlob, mp3Result, legacyMix, mixVars, sectionVars, ioVars, slotVars>>

\* const blob = audioBufferToWav(buffer)
SerializeWav ==
    /\ codecPc \in {"decoded", "generated"}
    /\ wavBlob' = AudioBufferToWav(audioBuffer)
    /\ codecPc' = IF codecPc = "decoded" THEN "voiceWav" ELSE "trackWav"
    /\ UNCHANGED <<pcmBytes, audioBuffer, mp3Result, legacyMix, mixVars, sectionVars, ioVars, slotVars>>

\* const mixedBuffer = mixAudioBuffers(ttsBufferRaw, musicBuffer, musicVolume,
\* audioContext)
MixLegacy ==
    /\ codecPc = "idle"
    /\ \E call \in LegacyCalls :
         legacyMix' = [voiceBuffer |-> call[1], musicBuffer |-> call[2],
                       musicVolume |-> call[3],
                       mixed |-> MixAudioBuffers(call[1], call[2], call[3])]
    /\ codecPc' = "legacyMixed"
    /\ UNCHANGED <<pcmBytes, audioBuffer, wavBlob, mp3Result, mixVars, sectionVars, ioVars, slotVars>>

\* const mixedBuffer = await mixPodcastSequence(...)
MixedBufferReady ==
    /\ codecPc = "idle"
    /\ \E buffer \in MixedBuffers :
         /\ audioBuffer' = buffer
         /\ codecPc' = "mixed"
    /\ UNCHANGED <<pcmBytes, wavBlob, mp3Result, legacyMix, mixVars, sectionVars, ioVars, slotVars>>

\* const mp3Blob = audioBufferToMp3(mixedBuffer), with window.lamejs as the
\* page's script loading left it
EncodeMp3 ==
    /\ codecPc \in {"decoded", "mixed"}
    /\ \E lamejs \in BOOLEAN :
         /\ mp3Result' = AudioBufferToMp3(audioBuffer, lamejs)
         /\ codecPc' = IF ~lamejs THEN "mp3Error"
                       ELSE IF codecPc = "decoded" THEN "voiceMp3" ELSE "mixedMp3"
    /\ UNCHANGED <<pcmBytes, audioBuffer, wavBlob, legacyMix, mixVars, sectionVars, ioVars, slotVars>>

----------------------------------------------------------------------------
(* blobToBase64. A string is a sequence of characters: the base64 alphabet
   0..63, "=", ",", and one character each for the three parts "data:",
   the blob's type and ";base64" of a data URL's prefix. *)

Comma == InvalidChar + 1
DataUrlPrefix == <<Comma + 1, Comma + 2, Comma + 3>>
Undefined == [undefined |-> TRUE]

\* The base64 encoding of a byte sequence
RECURSIVE Btoa(_)
Btoa(bytes) ==
    IF bytes = <<>> THEN <<>>
    ELSE IF Len(bytes) = 1
      THEN <<bytes[1] \div 4, (bytes[1] % 4) * 16, Pad, Pad>>
    ELSE IF Len(bytes) = 2
      THEN <<bytes[1] \div 4, (bytes[1] % 4) * 16 + bytes[2] \div 16,
             (bytes[2] % 16) * 4, Pad>>
    ELSE <<bytes[1] \div 4, (bytes[1] % 4) * 16 + bytes[2] \div 16,
           (bytes[2] % 16) * 4 + bytes[3] \div 64, bytes[3] % 64>>
           \o Btoa(SubSeq(bytes, 4, Len(bytes)))

\* reader.result after a successful readAsDataURL(blob)
DataUrl(blob) == DataUrlPrefix \o <<Comma>> \o Btoa(blob.bytes)

\* s.split(','): the pieces of s between its commas
RECURSIVE Split(_)
Split(s) ==
    IF \A i \in 1..Len(s) : s[i] # Comma THEN <<s>>
    ELSE LET first == CHOOSE i \in 1..Len(s) :
                          s[i] = Comma /\ \A j \in 1..(i - 1) : s[j] # Comma
         IN  <<SubSeq(s, 1, first - 1)>> \o Split(SubSeq(s, first + 1, Len(s)))

SplitPrefix(result) == Split(result)[1]

\* reader.result.split(',')[1]
SplitBody(result) ==
    IF Len(Split(result)) >= 2 THEN Split(result)[2] ELSE Undefined

\* resolve(value) or reject(reason) called on a promise: only the first
\* call settles it
Settle(p, state, value) ==
    [state |-> IF p.state = "pending" THEN state ELSE p.state,
     value |-> IF p.state = "pending" THEN value ELSE p.value,
     calls |-> Append(p.calls, state)]

NoReader == [readyState |-> "EMPTY", blob |-> Null, result |-> Null]
NoPromise == [state |-> "none", value |-> Null, calls |-> <<>>]

\* The MP3 blobs handed to blobToBase64: at least one byte
Blobs ==
    {[type |-> "audio/mp3", bytes |-> b] : b \in SeqsUpTo(ByteValues, MaxBlobBytes) \ {<<>>}}

\* blobToBase64(blob) up to its return: the reader is created, its handlers
\* are set, readAsDataURL is called
BlobToBase64 ==
    /\ promise.state = "none"
    /\ \E blob \in Blobs :
         fileReader' = [readyState |-> "LOADING", blob |-> blob, result |-> Null]
    /\ promise' = [state |-> "pending", value |-> Null, calls |-> <<>>]
    /\ UNCHANGED <<mixVars, codecVars, sectionVars, slotVars>>

\* The read ends. On success result is the data URL and load, loadend are
\* fired; on failure result is null and error, loadend are fired: onerror
\* rejects with the event, then onloadend runs
ReadEnds ==
    /\ fileReader.readyState = "LOADING"
    /\ \E ok \in BOOLEAN :
         LET result == IF ok THEN DataUrl(fileReader.blob) ELSE Null
             afterError == IF ok THEN promise ELSE Settle(promise, "rejected", "error event")
         IN  /\ fileReader' = [fileReader EXCEPT !.readyState = "DONE", !.result = result]
             /\ promise' = IF result # Null
                             THEN Settle(afterError, "fulfilled", SplitBody(result))
                             ELSE Settle(afterError, "rejected",
                                         "Failed to convert blob to base64")
    /\ UNCHANGED <<mixVars, codecVars, sectionVars, slotVars>>

----------------------------------------------------------------------------
(* AudioSection: handleGenerateAudio, handleVoicePreview and handleSendEmail.
   An invocation is a record of its position and its local variables; its
   audio context is "none" before new AudioContext(), then "open", then
   "closed". A blob or buffer carries the number of the invocation that
   produced it. *)

Event(stage, ev) == [stage |-> stage, ev |-> ev]

\* The assets chosen in the interface, in the order lines 1088-1101 decode them
Pending(assets) ==
    SelectSeq(<<"background", "intro", "outro">>, LAMBDA a : a \in assets)

\* The mixed buffer handed to the encoder by an invocation
PipelineMix == AudioBufferOf(<<LongChannel(0, 2), LongChannel(1, 2)>>, 2, outputSampleRate)

\* Lines 1073-1084 done: state reset, context created, synthesis called
Started(run, assets) ==
    [pc |-> "synthesis", run |-> run, ctx |-> "open",
     assets |-> assets, pending |-> Pending(assets),
     base64Data |-> <<>>, voiceBuffer |-> Null, buffers |-> {}, mixedBuffer |-> Null,
     lamejs |-> "unread", mp3 |-> NoMp3, log |-> <<Event("synthesis", "start")>>,
     failed |-> "none", published |-> FALSE]

\* The invocation has returned: its locals are gone; what is kept is how it
\* ended
Finished(g) ==
    [pc |-> "done", run |-> g.run, ctx |-> g.ctx,
     assets |-> {}, pending |-> <<>>,
     base64Data |-> <<>>, voiceBuffer |-> Null, buffers |-> {}, mixedBuffer |-> Null,
     lamejs |-> g.lamejs, mp3 |-> NoMp3, log |-> <<>>,
     failed |-> g.failed, published |-> g.published]

CallMix(g) == [g EXCEPT !.pc = "mix", !.log = Append(@, Event("mix", "start"))]

\* The call of the next stage after the voice or an asset has been decoded:
\* decodeAudioBlob for the next chosen asset, or mixPodcastSequence
CallNext(g) ==
    IF g.pending # <<>>
      THEN [g EXCEPT !.pc = "decodeAsset",
                     !.log = Append(@, Event(Head(g.pending), "start"))]
      ELSE [g EXCEPT !.pc = "mix", !.log = Append(@, Event("mix", "start"))]

CaughtAndContinued(g, stage) == CallMix(g)

\* catch (err) at line 1118, then finally: await ctx.close()
Caught(g, stage) ==
    [g EXCEPT !.pc = "closing", !.failed = stage,
              !.log = Append(@, Event(stage, "failed"))]

\* err.message || "Failed to generate audio. Please try again."
ErrorMessage(stage) ==
    IF stage = "encode" THEN "Lamejs library not found." ELSE "Failed to generate audio."

GenerateEnabledWhileLoading(script) == script # ""

\* disabled={loading || !script} of the Generate button
GenerateEnabled(script) == ~(loading \/ script = "")

\* The first version of handleGenerateAudio: the context is created after
\* the synthesis and closed inside the try block, after the result has been
\* published; the finally block only runs setLoading(false)
EarlierStarted(run, assets) ==
    [pc |-> "synthesis", run |-> run, ctx |-> "none", pending |-> Pending(assets),
     failed |-> "none", published |-> FALSE]

\* stopPreview(): the audio element is paused and setPlayingPreview(null)
StopPreview == "null"

\* playPreviewAudio(blob, id): stopPreview(), the new audio element is
\* played and setPlayingPreview(id)
PlayPreviewAudio(id) == id

\* The Generate button is clicked: handleGenerateAudio up to its first await
ClickGenerate ==
    /\ Len(generations) < MaxGenerations
    /\ \E script \in {"", " ", "script"}, assets \in SUBSET {"background", "intro", "outro"} :
         /\ GenerateEnabled(script)
         /\ IF script = " "
              THEN UNCHANGED <<loading, error, audioUrl, audioBlob, generations,
                               playingPreview>>
              ELSE /\ playingPreview' = StopPreview
                   /\ loading' = TRUE
                   /\ error' = "null"
                   /\ audioUrl' = Null
                   /\ audioBlob' = Null
                   /\ generations' = Append(generations, Started(Len(generations) + 1, assets))
    /\ UNCHANGED <<previews, previewLoading, emailVars, mixVars, codecVars, ioVars, slotVars>>

\* generatePodcastAudio settles; on a payload decodeBase64Audio runs and the
\* handler goes on to the first asset decode or to the mixer
SynthesisSettles ==
    \E r \in DOMAIN generations :
        LET g == generations[r] IN
        /\ g.pc = "synthesis"
        /\ \E rejected \in BOOLEAN, payload \in Base64Strings :
             LET decoded == DecodeBase64String(payload)
                 called == [g EXCEPT !.base64Data = payload,
                                     !.log = g.log \o <<Event("synthesis", "done"),
                                                        Event("decode", "start")>>]
             IN  IF rejected
                   THEN /\ payload = <<>>
                        /\ generations' = [generations EXCEPT ![r] = Caught(g, "synthesis")]
                        /\ error' = ErrorMessage("synthesis")
                   ELSE IF IsThrown(decoded)
                   THEN /\ generations' = [generations EXCEPT ![r] = Caught(called, "decode")]
                        /\ error' = ErrorMessage("decode")
                   ELSE /\ generations' =
                             [generations EXCEPT ![r] =
                                 CallNext([called EXCEPT
                                     !.voiceBuffer = decoded,
                                     !.log = Append(@, Event("decode", "done"))])]
                        /\ UNCHANGED error
        /\ UNCHANGED <<loading, audioUrl, audioBlob, previews, previewLoading, playingPreview, emailVars,
                       mixVars, codecVars, ioVars, slotVars>>

\* decodeAudioBlob of the background, intro or outro blob settles
AssetDecodeSettles ==
    \E r \in DOMAIN generations :
        LET g == generations[r] IN
        /\ g.pc = "decodeAsset"
        /\ \E ok \in BOOLEAN :
             LET asset == Head(g.pending)
             IN  IF ok
                   THEN /\ generations' =
                             [generations EXCEPT ![r] =
                                 CallNext([g EXCEPT
                                     !.pending = Tail(@),
                                     !.buffers = @ \cup {[kind |-> asset, run |-> g.run]},
                                     !.log = Append(@, Event(asset, "done"))])]
                        /\ UNCHANGED error
                   ELSE /\ generations' = [generations EXCEPT ![r] = Caught(g, asset)]
                        /\ error' = ErrorMessage(asset)
        /\ UNCHANGED <<loading, audioUrl, audioBlob, previews, previewLoading, playingPreview, emailVars,
                       mixVars, codecVars, ioVars, slotVars>>

\* mixPodcastSequence settles; on a buffer audioBufferToMp3 runs, and the
\* blob and its URL are published (lines 1103-1116)
MixSettles ==
    \E r \in DOMAIN generations :
        LET g == generations[r] IN
        /\ g.pc = "mix"
        /\ \E ok \in BOOLEAN, lamejs \in BOOLEAN :
             LET mixed == [g EXCEPT
                     !.mixedBuffer = [run |-> g.run,
                                      inputs |-> {[kind |-> "voice", run |-> g.run]}
                                                   \cup g.buffers],
                     !.log = g.log \o <<Event("mix", "done"), Event("encode", "start")>>,
                     !.lamejs = IF lamejs THEN "loaded" ELSE "missing",
                     !.mp3 = AudioBufferToMp3(PipelineMix, lamejs)]
                 mp3Blob == [run |-> g.run, type |-> "audio/mp3"]
             IN  IF ~ok
                   THEN /\ lamejs
                        /\ generations' = [generations EXCEPT ![r] = Caught(g, "mix")]
                        /\ error' = ErrorMessage("mix")
                        /\ UNCHANGED <<audioUrl, audioBlob>>
                   ELSE IF mixed.mp3.thrown
                   THEN /\ generations' = [generations EXCEPT ![r] = Caught(mixed, "encode")]
                        /\ error' = ErrorMessage("encode")
                        /\ UNCHANGED <<audioUrl, audioBlob>>
                   ELSE /\ generations' =
                             [generations EXCEPT ![r] =
                                 [mixed EXCEPT !.pc = "closing", !.published = TRUE,
                                               !.log = Append(@, Event("encode", "done"))]]
                        /\ audioUrl' = [blob |-> mp3Blob]
                        /\ audioBlob' = mp3Blob
                        /\ UNCHANGED error
        /\ UNCHANGED <<loading, previews, previewLoading, playingPreview, emailVars, mixVars, codecVars, ioVars, slotVars>>

\* finally: await ctx.close() settles; when it resolves setLoading(false)
\* runs, when it rejects the rejection leaves the finally block at once
CloseSettles ==
    \E r \in DOMAIN generations :
        LET g == generations[r] IN
        /\ g.pc = "closing"
        /\ \E resolved \in BOOLEAN :
             IF resolved
               THEN /\ generations' =
                         [generations EXCEPT ![r] = Finished([g EXCEPT !.ctx = "closed"])]
                    /\ loading' = FALSE
               ELSE /\ generations' = [generations EXCEPT ![r] = Finished(g)]
                    /\ UNCHANGED loading
        /\ UNCHANGED <<error, audioUrl, audioBlob, previews, previewLoading, playingPreview, emailVars,
                       mixVars, codecVars, ioVars, slotVars>>

\* The Generate button is clicked: the first version of handleGenerateAudio
\* up to its first await
EarlierClickGenerate ==
    /\ Len(generations) < MaxGenerations
    /\ \E script \in {"", " ", "script"}, assets \in SUBSET {"background", "intro", "outro"} :
         /\ GenerateEnabled(script)
         /\ IF script = " "
              THEN UNCHANGED <<loading, error, audioUrl, audioBlob, generations,
                               playingPreview>>
              ELSE /\ playingPreview' = StopPreview
                   /\ loading' = TRUE
                   /\ error' = "null"
                   /\ audioUrl' = Null
                   /\ audioBlob' = Null
                   /\ generations' =
                        Append(generations, EarlierStarted(Len(generations) + 1, assets))
    /\ UNCHANGED <<previews, previewLoading, emailVars, mixVars, codecVars, ioVars, slotVars>>

\* An awaited stage settles: the synthesis (followed by new AudioContext and
\* decodeBase64Audio), an asset decode, or the mix (followed by the encoder
\* and setAudioUrl, setAudioBlob). A failure runs catch and finally.
EarlierStageSettles ==
    \E r \in DOMAIN generations :
        LET g == generations[r] IN
        /\ g.pc \in {"synthesis", "decodeAsset", "mix"}
        /\ \E ok \in BOOLEAN, decoded \in BOOLEAN :
             LET ctx == IF g.pc = "synthesis" /\ ok THEN "open" ELSE g.ctx
                 rest == IF g.pc = "decodeAsset" THEN Tail(g.pending) ELSE g.pending
                 mp3Blob == [run |-> g.run, type |-> "audio/mp3"]
             IN  IF ~ok \/ ~decoded
                   THEN /\ (g.pc = "decodeAsset" => decoded)
                        /\ (~ok => decoded)
                        /\ generations' = [generations EXCEPT ![r] =
                               [g EXCEPT !.pc = "done", !.ctx = ctx, !.failed = g.pc]]
                        /\ error' = "Failed to generate audio. Please try again."
                        /\ loading' = FALSE
                        /\ UNCHANGED <<audioUrl, audioBlob>>
                   ELSE IF g.pc = "mix"
                   THEN /\ generations' = [generations EXCEPT ![r] =
                               [g EXCEPT !.pc = "closing", !.published = TRUE]]
                        /\ audioUrl' = [blob |-> mp3Blob]
                        /\ audioBlob' = mp3Blob
                        /\ UNCHANGED <<error, loading>>
                   ELSE /\ generations' = [generations EXCEPT ![r] =
                               [g EXCEPT !.pc = IF rest # <<>> THEN "decodeAsset" ELSE "mix",
                                         !.ctx = ctx, !.pending = rest]]
                        /\ UNCHANGED <<error, loading, audioUrl, audioBlob>>
        /\ UNCHANGED <<previews, previewLoading, playingPreview, emailVars, mixVars,
                       codecVars, ioVars, slotVars>>

\* await ctx.close() settles, inside the try block: a rejection runs catch;
\* finally runs either way
EarlierCloseSettles ==
    \E r \in DOMAIN generations :
        LET g == generations[r] IN
        /\ g.pc = "closing"
        /\ \E resolved \in BOOLEAN :
             IF resolved
               THEN /\ generations' = [generations EXCEPT ![r] =
                           [g EXCEPT !.pc = "done", !.ctx = "closed"]]
                    /\ UNCHANGED error
               ELSE /\ generations' = [generations EXCEPT ![r] =
                           [g EXCEPT !.pc = "done", !.failed = "close"]]
                    /\ error' = "Failed to generate audio. Please try again."
        /\ loading' = FALSE
        /\ UNCHANGED <<audioUrl, audioBlob, previews, previewLoading, playingPreview,
                       emailVars, mixVars, codecVars, ioVars, slotVars>>

\* disabled={previewLoading !== null && previewLoading !== id}
PreviewEnabled(id) == previewLoading \in {"null", id}

\* A preview button is clicked: handleVoicePreview up to its first await;
\* a click on the preview that is playing stops it (lines 1048-1051)
ClickVoicePreview ==
    \E id \in {"host", "guest"} :
         /\ PreviewEnabled(id)
         /\ IF playingPreview = id
              THEN /\ playingPreview' = StopPreview
                   /\ UNCHANGED <<previewLoading, previews>>
              ELSE /\ Len(previews) < MaxPreviews
                   /\ previewLoading' = id
                   /\ previews' = Append(previews, [pc |-> "synthesis", ctx |-> "none",
                                                    id |-> id])
                   /\ UNCHANGED playingPreview
         /\ UNCHANGED <<loading, error, audioUrl, audioBlob, generations, emailVars,
                        mixVars, codecVars, ioVars, slotVars>>

\* generateVoicePreview settles; on a payload the context is created and
\* decodeBase64Audio and audioBufferToWav run (lines 1058-1062)
PreviewSynthesisSettles ==
    \E p \in DOMAIN previews :
        /\ previews[p].pc = "synthesis"
        /\ \E rejected \in BOOLEAN, payload \in Base64Strings :
             IF rejected
               THEN /\ payload = <<>>
                    /\ previews' = [previews EXCEPT ![p] = [@ EXCEPT !.pc = "done"]]
                    /\ previewLoading' = "null"
               ELSE IF IsThrown(DecodeBase64String(payload))
               THEN /\ previews' = [previews EXCEPT ![p] = [@ EXCEPT !.pc = "done", !.ctx = "open"]]
                    /\ previewLoading' = "null"
               ELSE /\ previews' = [previews EXCEPT ![p] = [@ EXCEPT !.pc = "closing", !.ctx = "open"]]
                    /\ UNCHANGED previewLoading
        /\ UNCHANGED <<loading, error, audioUrl, audioBlob, generations, playingPreview,
                       emailVars,
                       mixVars, codecVars, ioVars, slotVars>>

\* await ctx.close() settles: resolved, playPreviewAudio runs; rejected, the
\* catch block; then the finally block
PreviewCloseSettles ==
    \E p \in DOMAIN previews :
        /\ previews[p].pc = "closing"
        /\ \E resolved \in BOOLEAN :
             IF resolved
               THEN /\ previews' = [previews EXCEPT ![p] =
                                       [@ EXCEPT !.pc = "done", !.ctx = "closed"]]
                    /\ playingPreview' = PlayPreviewAudio(previews[p].id)
               ELSE /\ previews' = [previews EXCEPT ![p] = [@ EXCEPT !.pc = "done"]]
                    /\ UNCHANGED playingPreview
        /\ previewLoading' = "null"
        /\ UNCHANGED <<loading, error, audioUrl, audioBlob, generations, emailVars,
                       mixVars, codecVars, ioVars, slotVars>>

\* audio.onended of the preview that is playing: setPlayingPreview(null)
PreviewEnded ==
    /\ playingPreview # "null"
    /\ playingPreview' = "null"
    /\ UNCHANGED <<loading, error, audioUrl, audioBlob, generations, previews,
                   previewLoading, emailVars, mixVars, codecVars, ioVars, slotVars>>

\* emailTo.trim()
Trim(emailTo) == IF emailTo = " " THEN "" ELSE emailTo

\* disabled={isSendingEmail || !emailTo.trim()} of the Send button
SendEnabled(emailTo) == ~(emailSend.pc # "idle" \/ Trim(emailTo) = "")

\* The Send button of the e-mail dialog is clicked: handleSendEmail up to
\* its first await, the call blobToBase64(audioBlob). The dialog can be
\* closed while the handler runs.
HandleSendEmail ==
    /\ emailSend.sends < MaxSends
    /\ \E emailTo \in {" ", "a@b.c"} :
         /\ SendEnabled(emailTo)
         /\ IF Trim(emailTo) = "" \/ audioBlob = Null
              THEN UNCHANGED <<transcoded, emailSend>>
              ELSE /\ transcoded' = audioBlob
                   /\ emailSend' = [pc |-> "transcoding", to |-> emailTo,
                                    sends |-> emailSend.sends + 1]
    /\ UNCHANGED <<loading, error, audioUrl, audioBlob, generations, previews,
                   previewLoading, playingPreview, posted, mixVars, codecVars, ioVars, slotVars>>

\* blobToBase64 settles: on a string the payload is built and handed to
\* fetch; on a rejection the catch block ends the handler
TranscodeSettles ==
    /\ emailSend.pc = "transcoding"
    /\ \E ok \in BOOLEAN :
         IF ok
           THEN /\ posted' = [null |-> FALSE, to |-> emailSend.to,
                              attachmentName |-> "AI-Podcast_date.mp3",
                              attachmentBase64 |-> transcoded]
                /\ emailSend' = [emailSend EXCEPT !.pc = "posting"]
           ELSE /\ emailSend' = [emailSend EXCEPT !.pc = "idle"]
                /\ UNCHANGED posted
    /\ UNCHANGED <<loading, error, audioUrl, audioBlob, generations, previews,
                   previewLoading, playingPreview, transcoded, mixVars, codecVars,
                   ioVars, slotVars>>

\* The request settles (directly or through the proxy): setIsSendingEmail(false)
PostSettles ==
    /\ emailSend.pc = "posting"
    /\ emailSend' = [emailSend EXCEPT !.pc = "idle"]
    /\ UNCHANGED <<loading, error, audioUrl, audioBlob, generations, previews,
                   previewLoading, playingPreview, transcoded, posted, mixVars,
                   codecVars, ioVars, slotVars>>

----------------------------------------------------------------------------
(* The music slots: loadData, handleFileUpload, handleFileDelete, the slot
   selection, and the choice of the background by handleGenerateAudio. A
   handler sees the musicSlots and selectedMusicIndex of the render in which
   it was called, also after its awaits. slotOps[1] is loadData. *)

SlotCount == 3
Slots == 0..(SlotCount - 1)

StoredFile == [null |-> FALSE, name |-> "music.mp3"]

NoSlotMix == [called |-> FALSE, backgroundBuffer |-> Null, tracks |-> <<>>]

Done == [kind |-> "done", index |-> 0, musicSlots |-> <<>>, selectedMusicIndex |-> 0 - 1,
         read |-> <<>>]

\* loadData ended in its catch block
Failed == [Done EXCEPT !.kind = "failed"]

\* A handler called now, with the state it closes over
Called(kind, index) ==
    [kind |-> kind, index |-> index, musicSlots |-> musicSlots,
     selectedMusicIndex |-> selectedMusicIndex, read |-> <<>>]

Mounted == slotOps # <<>>

UserOps == Len(slotOps) - 1

\* The component mounts: the store holds what earlier sessions left, the
\* selection is read from localStorage, and the effect calls loadData
LoadData ==
    /\ ~Mounted
    /\ \E held \in SUBSET Slots, saved \in (0 - 1)..(SlotCount - 1) :
         /\ store' = [i \in Slots |-> IF i \in held THEN StoredFile ELSE Null]
         /\ selectedMusicIndex' = saved
    /\ slotOps' = <<Called("load", 0)>>
    /\ UNCHANGED <<musicSlots, slotMix, mixVars, codecVars, sectionVars, ioVars>>

\* getAudioFile('music_k') settles for loadData; after the third one
\* setMusicSlots([slotA, slotB, slotC]); a rejection ends loadData in its
\* catch block
GetAudioFileSettles ==
    /\ Mounted
    /\ slotOps[1].kind = "load"
    /\ \E ok \in BOOLEAN :
         LET op == slotOps[1]
             read == Append(op.read, store[Len(op.read)])
         IN  IF ~ok
               THEN /\ slotOps' = [slotOps EXCEPT ![1] = Failed]
                    /\ UNCHANGED musicSlots
               ELSE IF Len(read) < SlotCount
               THEN /\ slotOps' = [slotOps EXCEPT ![1] = [op EXCEPT !.read = read]]
                    /\ UNCHANGED musicSlots
               ELSE /\ slotOps' = [slotOps EXCEPT ![1] = Done]
                    /\ musicSlots' = [i \in Slots |-> read[i + 1]]
    /\ UNCHANGED <<store, selectedMusicIndex, slotMix, mixVars, codecVars, sectionVars,
                   ioVars>>

\* A file is chosen in the upload field of an empty slot: handleFileUpload
\* up to await storeAudioFile
HandleFileUpload ==
    /\ Mounted
    /\ UserOps < MaxSlotOps
    /\ \E index \in Slots :
         /\ musicSlots[index] = Null
         /\ slotOps' = Append(slotOps, Called("upload", index))
    /\ UNCHANGED <<store, musicSlots, selectedMusicIndex, slotMix, mixVars, codecVars,
                   sectionVars, ioVars>>

\* const newSlots = [...musicSlots]; newSlots[index] = file
WithSlot(op, file) == [op.musicSlots EXCEPT ![op.index] = file]

\* storeAudioFile settles: the transaction is committed, the slot list is
\* rebuilt and the slot selected; or it is aborted and the catch block runs
StoreAudioFileSettles ==
    \E k \in DOMAIN slotOps :
        LET op == slotOps[k] IN
        /\ op.kind = "upload"
        /\ \E ok \in BOOLEAN :
             IF ok
               THEN /\ store' = [store EXCEPT ![op.index] = StoredFile]
                    /\ musicSlots' = WithSlot(op, StoredFile)
                    /\ selectedMusicIndex' = op.index
               ELSE UNCHANGED <<store, musicSlots, selectedMusicIndex>>
        /\ slotOps' = [slotOps EXCEPT ![k] = Done]
        /\ UNCHANGED <<slotMix, mixVars, codecVars, sectionVars, ioVars>>

\* The delete button of a filled slot is clicked: handleFileDelete up to
\* await deleteAudioFile
HandleFileDelete ==
    /\ Mounted
    /\ UserOps < MaxSlotOps
    /\ \E index \in Slots :
         /\ musicSlots[index] # Null
         /\ slotOps' = Append(slotOps, Called("delete", index))
    /\ UNCHANGED <<store, musicSlots, selectedMusicIndex, slotMix, mixVars, codecVars,
                   sectionVars, ioVars>>

\* deleteAudioFile settles: committed, the slot list is rebuilt and the
\* selection reset if (selectedMusicIndex === index); or aborted
DeleteAudioFileSettles ==
    \E k \in DOMAIN slotOps :
        LET op == slotOps[k] IN
        /\ op.kind = "delete"
        /\ \E ok \in BOOLEAN :
             IF ok
               THEN /\ store' = [store EXCEPT ![op.index] = Null]
                    /\ musicSlots' = WithSlot(op, Null)
                    /\ selectedMusicIndex' =
                         IF op.selectedMusicIndex = op.index THEN 0 - 1
                         ELSE selectedMusicIndex
               ELSE UNCHANGED <<store, musicSlots, selectedMusicIndex>>
        /\ slotOps' = [slotOps EXCEPT ![k] = Done]
        /\ UNCHANGED <<slotMix, mixVars, codecVars, sectionVars, ioVars>>

\* A filled slot's card, or "no music", is clicked
SelectMusic ==
    /\ Mounted
    /\ \E index \in (0 - 1)..(SlotCount - 1) :
         /\ index # selectedMusicIndex
         /\ index # 0 - 1 => musicSlots[index] # Null
         /\ selectedMusicIndex' = index
    /\ UNCHANGED <<store, musicSlots, slotOps, slotMix, mixVars, codecVars, sectionVars,
                   ioVars>>

\* Generate is clicked: handleGenerateAudio up to its first await
GenerateWithSlots ==
    /\ Mounted
    /\ UserOps < MaxSlotOps
    /\ \A k \in DOMAIN slotOps : slotOps[k].kind # "generate"
    /\ slotOps' = Append(slotOps, Called("generate", 0))
    /\ UNCHANGED <<store, musicSlots, selectedMusicIndex, slotMix, mixVars, codecVars,
                   sectionVars, ioVars>>

\* if (selectedMusicIndex !== -1 && musicSlots[selectedMusicIndex])
MusicBlob(op) ==
    IF op.selectedMusicIndex # 0 - 1 /\ op.musicSlots[op.selectedMusicIndex] # Null
      THEN op.musicSlots[op.selectedMusicIndex]
      ELSE Null

\* The voice and the chosen music are decoded and mixPodcastSequence is
\* called: what it schedules
ChosenMusicMixed ==
    \E k \in DOMAIN slotOps :
        LET op == slotOps[k]
            musicBuffer == IF MusicBlob(op) = Null THEN Null ELSE Buffer(FrameStep, AssetRate)
            a == [NoArgs EXCEPT !.voiceBuffer = Buffer(FrameStep, sampleRate),
                                !.backgroundBuffer = musicBuffer,
                                !.musicVolume = Fin(15)]
            sources == ScheduleSources(a)
        IN  /\ op.kind = "generate"
            /\ slotMix' = [called |-> TRUE, backgroundBuffer |-> musicBuffer,
                           tracks |-> [i \in 1..Len(sources) |-> sources[i].track]]
            /\ slotOps' = [slotOps EXCEPT ![k] = Done]
    /\ UNCHANGED <<store, musicSlots, selectedMusicIndex, mixVars, codecVars, sectionVars,
                   ioVars>>

\* No call has been made yet
Init ==
    /\ mixPc = "idle"
    /\ mixArgs = NoArgs
    /\ offlineCtx = NoCtx
    /\ renderedBuffer = NoRender
    /\ codecPc = "idle"
    /\ pcmBytes = <<>>
    /\ audioBuffer = Null
    /\ wavBlob = NoWav
    /\ mp3Result = NoMp3
    /\ legacyMix = NoLegacyMix
    /\ loading = FALSE
    /\ error = "null"
    /\ audioUrl = Null
    /\ audioBlob = Null
    /\ generations = <<>>
    /\ previews = <<>>
    /\ previewLoading = "null"
    /\ playingPreview = "null"
    /\ transcoded = Null
    /\ emailSend = [pc |-> "idle", to |-> "", sends |-> 0]
    /\ posted = Null
    /\ fileReader = NoReader
    /\ promise = NoPromise
    /\ store = [i \in Slots |-> Null]
    /\ musicSlots = [i \in Slots |-> Null]
    /\ selectedMusicIndex = 0 - 1
    /\ slotOps = <<>>
    /\ slotMix = NoSlotMix

MixNext == MixPodcastSequence \/ RenderComplete

SpecMix == Init /\ [][MixNext]_vars

CodecNext ==
    DecodeVoice \/ GenerateTrack \/ SerializeWav \/ MixedBufferReady \/ EncodeMp3
      \/ MixLegacy

SpecCodec == Init /\ [][CodecNext]_vars

\* handleGenerateAudio and handleSendEmail
SectionNext ==
    \/ ClickGenerate \/ SynthesisSettles \/ AssetDecodeSettles \/ MixSettles
    \/ CloseSettles
    \/ HandleSendEmail \/ TranscodeSettles \/ PostSettles

SpecSection == Init /\ [][SectionNext]_vars

\* handleGenerateAudio and handleVoicePreview
PreviewNext ==
    \/ ClickGenerate \/ SynthesisSettles \/ AssetDecodeSettles \/ MixSettles
    \/ CloseSettles
    \/ ClickVoicePreview \/ PreviewSynthesisSettles \/ PreviewCloseSettles
    \/ PreviewEnded

SpecPreview == Init /\ [][PreviewNext]_vars

\* The first version of handleGenerateAudio
EarlierNext == EarlierClickGenerate \/ EarlierStageSettles \/ EarlierCloseSettles

SpecEarlier == Init /\ [][EarlierNext]_vars

SlotsNext ==
    \/ LoadData \/ GetAudioFileSettles
    \/ HandleFileUpload \/ StoreAudioFileSettles
    \/ HandleFileDelete \/ DeleteAudioFileSettles
    \/ SelectMusic \/ GenerateWithSlots \/ ChosenMusicMixed

SpecSlots == Init /\ [][SlotsNext]_vars

\* handleGenerateAudio alone. Each promise it awaits is settled in the end:
\* a step that is waiting for one is taken.
GenerateNext ==
    ClickGenerate \/ SynthesisSettles \/ AssetDecodeSettles \/ MixSettles \/ CloseSettles

SpecGenerate ==
    /\ Init /\ [][GenerateNext]_vars
    /\ WF_vars(SynthesisSettles) /\ WF_vars(AssetDecodeSettles)
    /\ WF_vars(MixSettles) /\ WF_vars(CloseSettles)

IoNext == BlobToBase64 \/ ReadEnds

SpecIo == Init /\ [][IoNext]_vars

----------------------------------------------------------------------------
(* Properties of mixPodcastSequence *)

dI == DurationOrZero(mixArgs.introBuffer)
dV == Duration(mixArgs.voiceBuffer)
dO == DurationOrZero(mixArgs.outroBuffer)

\* one tick of the 44.1 kHz output rate
OutTick == FrameTicks(outputSampleRate)

Returned == mixPc = "done"

\* A span [from, to) lying inside [lo, hi); an empty span lies inside any
Within(p, lo, hi) == p.from >= p.to \/ (p.from >= lo /\ p.to <= hi)

PlayedOf(track) ==
    {renderedBuffer.played[i] : i \in {j \in 1..Len(renderedBuffer.played) :
                                          renderedBuffer.played[j].track = track}}

SourcesOf(track) ==
    {offlineCtx.sources[i] : i \in {j \in 1..Len(offlineCtx.sources) :
                                       offlineCtx.sources[j].track = track}}

\* C1 as stated: for every combination of intro, voice and outro the returned
\* buffer's length is within one sample of (dI + dV + dO) * 44100.
C1_LengthWithinOneSample ==
    Returned =>
        /\ renderedBuffer.length * OutTick >= (dI + dV + dO) - OutTick
        /\ renderedBuffer.length * OutTick <= (dI + dV + dO) + OutTick

\* C1 amended: the returned buffer's length is within one sample of
\* (dI + dV + dO) * 44100 whenever dI + dV + dO >= 0.001 s; below that it is
\* the floor ceil(0.001 * 44100) = 45 samples.
C1_LengthWithinOneSampleAboveFloor ==
    Returned =>
        /\ renderedBuffer.sampleRate = 44100
        /\ dI + dV + dO >= MinDuration =>
              /\ renderedBuffer.length * OutTick >= dI + dV + dO
              /\ renderedBuffer.length * OutTick <= (dI + dV + dO) + OutTick
        /\ dI + dV + dO < MinDuration => renderedBuffer.length = 45

C1_Witness ==
    /\ Returned
    /\ mixArgs.introBuffer # Null /\ mixArgs.outroBuffer # Null
    /\ dI > 0 /\ dV > 0 /\ dO > 0
    /\ dI + dV + dO >= MinDuration

\* Two half-open spans with no instant in common
Disjoint(p, lo, hi) == p.from >= p.to \/ lo >= hi \/ p.to <= lo \/ p.from >= hi

\* C2: with a background buffer, for all durations including dV = 0, the
\* background source contributes nothing outside [dI, dI + dV): it is never
\* playing during the intro span [0, dI) nor during the outro span
\* [dI + dV, dI + dV + dO).
C2_BackgroundContained ==
    (Returned /\ mixArgs.backgroundBuffer # Null) =>
        \A p \in PlayedOf("background") :
            p.gain.v > 0 =>
                /\ Disjoint(p, 0, dI)
                /\ Disjoint(p, dI + dV, dI + dV + dO)

\* C3: the timeline is intro, voice, outro in contiguous spans: the intro (if
\* present) starts at 0, the voice always starts at dI, the outro (if present)
\* starts at dI + dV, each plays once, intro content lies only in [0, dI) and
\* outro content only in [dI + dV, dI + dV + dO).
C3_FixedOrderTimeline ==
    Returned =>
        /\ Cardinality(SourcesOf("voice")) = 1
        /\ Cardinality(SourcesOf("intro")) = IF mixArgs.introBuffer # Null THEN 1 ELSE 0
        /\ Cardinality(SourcesOf("outro")) = IF mixArgs.outroBuffer # Null THEN 1 ELSE 0
        /\ \A s \in SourcesOf("intro") :
              s.start = 0 /\ ~s.loop /\ s.buffer = mixArgs.introBuffer
        /\ \A s \in SourcesOf("voice") :
              s.start = dI /\ ~s.loop /\ s.buffer = mixArgs.voiceBuffer
        /\ \A s \in SourcesOf("outro") :
              s.start = dI + dV /\ ~s.loop /\ s.buffer = mixArgs.outroBuffer
        /\ \A p \in PlayedOf("intro") : Within(p, 0, dI)
        /\ \A p \in PlayedOf("voice") : Within(p, dI, dI + dV)
        /\ \A p \in PlayedOf("outro") : Within(p, dI + dV, dI + dV + dO)

C3_Witness ==
    /\ Returned
    /\ mixArgs.introBuffer # Null /\ mixArgs.outroBuffer # Null
    /\ dI > 0 /\ dV > 0 /\ dO > 0
    /\ \E p \in PlayedOf("outro") : p.from = dI + dV /\ p.to = dI + dV + dO
    /\ \E p \in PlayedOf("intro") : p.from = 0 /\ p.to = dI

\* The gain the claim expects for a volume argument
ExpectedGain(vol) == IF vol.k = "fin" /\ vol.v >= 0 THEN vol ELSE Fin(0)

\* C4: each track's gain depends only on its own volume argument: 1.0 for the
\* voice, and for intro, background and outro the volume if it is finite and
\* >= 0, else 0; a negative or non-finite volume gives the same schedule as
\* volume 0 and never aborts the mix.
C4_GainSanitized ==
    /\ mixPc # "error"
    /\ mixPc \in {"rendering", "done"} =>
          /\ \A s \in SourcesOf("voice") : s.gain = Fin(100)
          /\ \A s \in SourcesOf("intro") : s.gain = ExpectedGain(mixArgs.introVolume)
          /\ \A s \in SourcesOf("background") : s.gain = ExpectedGain(mixArgs.musicVolume)
          /\ \A s \in SourcesOf("outro") : s.gain = ExpectedGain(mixArgs.outroVolume)
          /\ offlineCtx.sources =
                ScheduleSources([mixArgs EXCEPT
                    !.introVolume = ExpectedGain(@),
                    !.musicVolume = ExpectedGain(@),
                    !.outroVolume = ExpectedGain(@)])

C4_Witness ==
    /\ Returned
    /\ mixArgs.musicVolume = NaN
    /\ mixArgs.introVolume = PosInf
    /\ mixArgs.outroVolume \in {NegInf, Fin(0 - 50)}
    /\ \E s \in SourcesOf("background") : s.gain = Fin(0)
    /\ \E s \in SourcesOf("intro") : s.gain = Fin(0)
    /\ \E s \in SourcesOf("outro") : s.gain = Fin(0)

----------------------------------------------------------------------------
(* Properties of decodeBase64Audio and audioBufferToWav *)

\* The signed 16-bit little-endian integer stored at byte offset off
ReadInt16(bytes, off) ==
    LET u == bytes[off + 1] + 256 * bytes[off + 2]
    IN  IF u >= 32768 THEN u - 65536 ELSE u

ReadUint16(bytes, off) == bytes[off + 1] + 256 * bytes[off + 2]

ReadUint32(bytes, off) ==
    bytes[off + 1] + 256 * bytes[off + 2] + 65536 * bytes[off + 3]
      + 16777216 * bytes[off + 4]

\* The four characters at byte offset off
ReadTag(bytes, off) == SubSeq(bytes, off + 1, off + 4)

\* PCM sample k (from 0) of the payload
PayloadSample(k) == ReadInt16(pcmBytes, 2 * k)

Abs(x) == IF x < 0 THEN 0 - x ELSE x

\* C5: decoding an odd-length byte sequence does not fail and yields the
\* buffer that decoding the sequence without its final byte yields.
C5_OddLengthTruncated ==
    /\ codecPc # "error"
    /\ (codecPc = "decoded" /\ Len(pcmBytes) % 2 = 1) =>
          /\ ~IsThrown(audioBuffer)
          /\ audioBuffer = DecodeBase64Audio(SubSeq(pcmBytes, 1, Len(pcmBytes) - 1))
          /\ audioBuffer.length = (Len(pcmBytes) - 1) \div 2

C5_Witness ==
    /\ codecPc = "decoded"
    /\ Len(pcmBytes) = 3
    /\ audioBuffer.length = 1
    /\ audioBuffer.channels[1][1] # Ratio(0, 32768)

\* C6: n bytes decode to a mono 24000 Hz buffer of floor(n / 2) frames, frame
\* i being the signed 16-bit little-endian integer of bytes 2i, 2i+1 divided
\* by 32768, so every sample lies in [-1, 1).
C6_DecodedFrames ==
    codecPc = "decoded" =>
        /\ audioBuffer.numberOfChannels = 1
        /\ Len(audioBuffer.channels) = 1
        /\ audioBuffer.sampleRate = 24000
        /\ audioBuffer.length = Len(pcmBytes) \div 2
        /\ Len(audioBuffer.channels[1]) = Len(pcmBytes) \div 2
        /\ \A i \in 0..(Len(pcmBytes) \div 2 - 1) :
              LET x == audioBuffer.channels[1][i + 1]
              IN  /\ x.den = 32768
                  /\ x.num = PayloadSample(i)
                  /\ 0 - x.den <= x.num /\ x.num < x.den

C6_Witness ==
    /\ codecPc = "decoded"
    /\ audioBuffer.length >= 2
    /\ \E i \in 1..audioBuffer.length : audioBuffer.channels[1][i].num < 0
    /\ \E i \in 1..audioBuffer.length : audioBuffer.channels[1][i].num > 255

\* C7: an even-length payload of samples s[0..n-1], decoded and serialized,
\* gives n data samples d[0..n-1] after the 44-byte header with
\* |d[k] - s[k]| <= 1 for every k.
C7_RoundTripWithinOne ==
    (codecPc = "voiceWav" /\ Len(pcmBytes) % 2 = 0) =>
        /\ Len(wavBlob.bytes) = 44 + Len(pcmBytes)
        /\ \A k \in 0..(Len(pcmBytes) \div 2 - 1) :
              Abs(ReadInt16(wavBlob.bytes, 44 + 2 * k) - PayloadSample(k)) <= 1

Serialized == codecPc \in {"voiceWav", "trackWav"}

\* C8: every frame k of every channel c is written, in order: the 16-bit
\* value at byte offset 44 + 2 * (k * numberOfChannels + c) is the
\* quantization of sample k of channel c, for every buffer length.
C8_EveryFrameWritten ==
    Serialized =>
        \A k \in 0..(audioBuffer.length - 1) :
            \A c \in 0..(audioBuffer.numberOfChannels - 1) :
                ReadInt16(wavBlob.bytes, 44 + 2 * (k * audioBuffer.numberOfChannels + c))
                  = ScaleToInt16(Clamp(audioBuffer.channels[c + 1][k + 1]))

\* C9: the blob has exactly 44 + frames * channels * 2 bytes, and its header
\* holds RIFF, total - 8, WAVE, fmt , 16, PCM code 1, the channel count, the
\* sample rate, byte rate sampleRate * 2 * channels, block align
\* 2 * channels, bit depth 16, data, and data size total - 44.
C9_WavHeader ==
    Serialized =>
        LET b == wavBlob.bytes
            total == 44 + audioBuffer.length * audioBuffer.numberOfChannels * 2
        IN  /\ Len(b) = total
            /\ ReadTag(b, 0) = <<82, 73, 70, 70>>
            /\ ReadUint32(b, 4) = total - 8
            /\ ReadTag(b, 8) = <<87, 65, 86, 69>>
            /\ ReadTag(b, 12) = <<102, 109, 116, 32>>
            /\ ReadUint32(b, 16) = 16
            /\ ReadUint16(b, 20) = 1
            /\ ReadUint16(b, 22) = audioBuffer.numberOfChannels
            /\ ReadUint32(b, 24) = audioBuffer.sampleRate
            /\ ReadUint32(b, 28) = audioBuffer.sampleRate * 2 * audioBuffer.numberOfChannels
            /\ ReadUint16(b, 32) = 2 * audioBuffer.numberOfChannels
            /\ ReadUint16(b, 34) = 16
            /\ ReadTag(b, 36) = <<100, 97, 116, 97>>
            /\ ReadUint32(b, 40) = total - 44

C9_Witness ==
    /\ codecPc = "trackWav"
    /\ audioBuffer.numberOfChannels = 2
    /\ audioBuffer.length = 2
    /\ Len(wavBlob.bytes) = 52
    /\ ReadUint32(wavBlob.bytes, 40) = 8

\* The claimed convention: negative x times 32768, non-negative x times
\* 32767, truncated to an integer
SignAsymmetricScale(x) ==
    IF x.den = 0 THEN 0
    ELSE IF x.num < 0 THEN TruncDiv(x.num * 32768, x.den) ELSE TruncDiv(x.num * 32767, x.den)

\* C10: every sample the serializer quantizes is, after clamping to [-1, 1],
\* scaled by 32768 if negative and by 32767 if non-negative.
C10_SignAsymmetricScaling ==
    Serialized =>
        \A i \in 1..Len(wavBlob.writes) :
            LET w == wavBlob.writes[i]
            IN  w.sample =
                  SignAsymmetricScale(Clamp(audioBuffer.channels[w.channel + 1][w.frame + 1]))

----------------------------------------------------------------------------
(* The encoder: claims C11 to C14 *)

Encoded == codecPc \in {"voiceMp3", "mixedMp3"}

Int16Range == (0 - 32768)..32767

\* The encodeBuffer calls of the log, in order
EncodeCalls == SelectSeq(mp3Result.log, LAMBDA ev : ev.op = "encodeBuffer")

\* The samples of the buffer's channel c (from 1) as the encoder received
\* them: the chunks of every encodeBuffer call joined in call order
RECURSIVE JoinChunks(_, _)
JoinChunks(calls, c) ==
    IF calls = <<>> THEN <<>>
    ELSE (IF c = 1 THEN Head(calls).left ELSE Head(calls).right) \o JoinChunks(Tail(calls), c)

IsNaN(x) == x.den = 0 /\ x.num = 0

\* C11: for every input sample value, out of [-1, 1] and NaN included, the
\* integer the 16-bit scaling step produces lies in [-32768, 32767], in
\* audioBufferToWav and in audioBufferToMp3 alike, so the value stored as a
\* signed 16-bit integer is the value produced: nothing wraps around.
C11_ScaledWithinInt16 ==
    /\ Serialized =>
         \A n \in 1..Len(wavBlob.writes) :
             LET w == wavBlob.writes[n]
             IN  /\ w.sample \in Int16Range
                 /\ ReadInt16(wavBlob.bytes, w.at) = w.sample
    /\ Encoded =>
         \A n \in 1..Len(EncodeCalls) :
             LET ev == EncodeCalls[n]
             IN  /\ \A j \in 1..Len(ev.scaled) : ev.scaled[j] \in Int16Range
                 /\ ev.left \o ev.right = ev.scaled

C11_Witness ==
    /\ codecPc = "mixedMp3"
    /\ audioBuffer.length = sampleBlockSize + 1
    /\ \E k \in 1..audioBuffer.length : IsNaN(audioBuffer.channels[1][k])
    /\ \E k \in 1..audioBuffer.length :
         /\ audioBuffer.channels[1][k] = Ratio(3, 2)
         /\ JoinChunks(EncodeCalls, 1)[k] = 32767
    /\ \E k \in 1..audioBuffer.length :
         /\ audioBuffer.channels[1][k] = Ratio(0 - 1, 0)
         /\ JoinChunks(EncodeCalls, 1)[k] = 0 - 32768

\* What the encoder should have been fed for channel c (from 1): every
\* sample of the channel, clamped, scaled and stored, in frame order
QuantizedChannel(c) ==
    [k \in 1..audioBuffer.length |->
        Int16Store(ScaleForMp3(Clamp(audioBuffer.channels[c][k])))]

\* C12: for a buffer of L frames, encodeBuffer is called exactly
\* ceil(L / 1152) times in increasing frame order; every call but possibly
\* the last carries 1152 samples per channel, a final partial frame carries
\* L mod 1152 samples and is not padded; the chunks joined are exactly the L
\* quantized samples; flush is called exactly once, after the last
\* encodeBuffer call; this holds for every L, 0 included.
C12_FramedEncoding ==
    Encoded =>
        LET L == audioBuffer.length
            calls == EncodeCalls
            log == mp3Result.log
        IN  /\ Len(calls) = CeilDiv(L, sampleBlockSize)
            /\ \A n \in 1..Len(calls) :
                 /\ calls[n].at = (n - 1) * sampleBlockSize
                 /\ log[n] = calls[n]
                 /\ Len(calls[n].left) =
                      IF n < Len(calls) \/ L % sampleBlockSize = 0
                        THEN sampleBlockSize
                        ELSE L % sampleBlockSize
                 /\ Len(calls[n].right) =
                      IF audioBuffer.numberOfChannels = 1 THEN 0 ELSE Len(calls[n].left)
            /\ \A c \in 1..audioBuffer.numberOfChannels :
                 JoinChunks(calls, c) = QuantizedChannel(c)
            /\ Len(log) = Len(calls) + 1
            /\ log[Len(log)].op = "flush"
            /\ mp3Result.blob # {}

C12_Witness ==
    /\ codecPc = "mixedMp3"
    /\ audioBuffer.numberOfChannels = 2
    /\ audioBuffer.length = 2 * sampleBlockSize + 1
    /\ Len(EncodeCalls) = 3
    /\ Len(EncodeCalls[2].left) = sampleBlockSize
    /\ Len(EncodeCalls[3].left) = 1
    /\ Len(EncodeCalls[3].right) = 1
    /\ mp3Result.log[4].op = "flush"

\* C13: audioBufferToMp3 and audioBufferToWav apply the same scaling: for
\* every sample value x, the signed 16-bit integer fed to the encoder equals
\* the signed 16-bit integer audioBufferToWav writes for x.
C13_SameScalingAsWav ==
    Encoded =>
        \A c \in 1..audioBuffer.numberOfChannels :
            \A k \in 1..audioBuffer.length :
                JoinChunks(EncodeCalls, c)[k]
                  = Int16Store(ScaleToInt16(Clamp(audioBuffer.channels[c][k])))

----------------------------------------------------------------------------
(* The pipeline of AudioSection: claims C14 to C19 *)

InFlight(g) == g.pc # "done"

Latest(r) == r = Len(generations)

Count(log, ev) == Cardinality({i \in DOMAIN log : log[i] = ev})

\* C14: when lamejs is unavailable, audioBufferToMp3 fails at once, before
\* creating an encoder or reading a sample, and returns no blob; no fallback
\* encoding is attempted: the invocation ends with the error set and no
\* audio URL or blob.
C14_NoFallbackWithoutLamejs ==
    \A r \in DOMAIN generations :
        LET g == generations[r]
        IN  g.lamejs = "missing" =>
              /\ g.failed = "encode"
              /\ ~g.published
              /\ InFlight(g) =>
                   /\ g.mp3 = [thrown |-> TRUE, encoder |-> {}, log |-> <<>>, blob |-> {}]
                   /\ g.log[Len(g.log)] = Event("encode", "failed")
                   /\ Count(g.log, Event("encode", "start")) = 1
              /\ Latest(r) =>
                   /\ error = "Lamejs library not found."
                   /\ audioUrl = Null
                   /\ audioBlob = Null

C14_Witness ==
    \E r \in DOMAIN generations :
        /\ generations[r].pc = "done"
        /\ generations[r].lamejs = "missing"
        /\ generations[r].ctx = "closed"
        /\ Latest(r)
        /\ ~loading
        /\ error = "Lamejs library not found."
        /\ audioUrl = Null

\* A base64 string: alphabet characters, then at most two "=" that bring the
\* length to a multiple of 4, its data not of length 1 mod 4
WellFormed(s) ==
    \E pads \in 0..2 :
        /\ pads <= Len(s)
        /\ pads > 0 => Len(s) % 4 = 0
        /\ (Len(s) - pads) % 4 # 1
        /\ \A i \in 1..Len(s) : IF i <= Len(s) - pads THEN s[i] \in 0..63 ELSE s[i] = Pad

\* C15: a malformed base64 payload makes decodeBase64Audio fail without
\* producing a buffer, and nothing is retried: within one invocation of
\* handleGenerateAudio the synthesis call and the PCM decode are each
\* attempted at most once.
C15_MalformedPayloadNotRetried ==
    \A r \in DOMAIN generations :
        LET g == generations[r]
        IN  /\ Count(g.log, Event("synthesis", "start")) <= 1
            /\ Count(g.log, Event("decode", "start")) <= 1
            /\ ~WellFormed(g.base64Data) =>
                 /\ g.voiceBuffer = Null
                 /\ g.failed = "decode"
                 /\ g.pc = "closing"
                 /\ g.log[Len(g.log)] = Event("decode", "failed")
                 /\ g.mixedBuffer = Null
                 /\ ~g.published

C15_Witness ==
    \E r \in DOMAIN generations :
        /\ generations[r].pc = "closing"
        /\ generations[r].base64Data = <<42, InvalidChar>>
        /\ generations[r].failed = "decode"
        /\ generations[r].voiceBuffer = Null
        /\ Count(generations[r].log, Event("decode", "start")) = 1

\* C16: every audio context acquired by an invocation of handleGenerateAudio
\* or handleVoicePreview is closed on every exit path: once the invocation
\* has ended, by success or by a failure of any stage, a context it created
\* has been closed.
C16_ContextClosedOnExit ==
    /\ \A r \in DOMAIN generations :
         generations[r].pc = "done" => generations[r].ctx \in {"none", "closed"}
    /\ \A p \in DOMAIN previews :
         previews[p].pc = "done" => previews[p].ctx \in {"none", "closed"}

\* The stages of handleGenerateAudio for a choice of assets, in order
Stages(assets) == <<"synthesis", "decode">> \o Pending(assets) \o <<"mix", "encode">>

StageIndex(assets, stage) ==
    CHOOSE n \in 1..Len(Stages(assets)) : Stages(assets)[n] = stage

\* C17: a failure at any stage of handleGenerateAudio aborts the whole
\* invocation: no later stage runs, no audio URL or blob is published, the
\* error is recorded, and no reduced result is produced: a published blob
\* was mixed from the voice and every chosen asset.
C17_FailureAborts ==
    \A r \in DOMAIN generations :
        LET g == generations[r]
        IN  /\ g.failed # "none" =>
                 /\ ~g.published
                 /\ g.pc \in {"closing", "done"}
                 /\ InFlight(g) =>
                      /\ g.log[Len(g.log)] = Event(g.failed, "failed")
                      /\ \A i \in DOMAIN g.log :
                             StageIndex(g.assets, g.log[i].stage)
                               <= StageIndex(g.assets, g.failed)
                      /\ Count(g.log, Event(g.failed, "failed")) = 1
                 /\ Latest(r) => audioUrl = Null /\ audioBlob = Null /\ error # "null"
            /\ (Latest(r) /\ error # "null") => (g.failed # "none" /\ audioUrl = Null)
            /\ (g.published /\ InFlight(g)) =>
                 g.mixedBuffer.inputs
                   = {[kind |-> "voice", run |-> r]}
                       \cup {[kind |-> a, run |-> r] : a \in g.assets}

C17_Witness ==
    \E r \in DOMAIN generations :
        /\ generations[r].pc = "done"
        /\ generations[r].failed = "intro"
        /\ Latest(r)
        /\ audioUrl = Null
        /\ audioBlob = Null
        /\ error # "null"
        /\ ~loading

\* Start and completion of every stage for a choice of assets, in order
RECURSIVE StartDone(_)
StartDone(stages) ==
    IF stages = <<>> THEN <<>>
    ELSE <<Event(Head(stages), "start"), Event(Head(stages), "done")>>
           \o StartDone(Tail(stages))

\* The log is the beginning of the full run, or such a beginning up to the
\* start of a stage followed by that stage's failure
InOrder(log, assets) ==
    LET full == StartDone(Stages(assets))
    IN  \E n \in 1..Len(full) :
            \/ log = SubSeq(full, 1, n)
            \/ /\ full[n].ev = "start"
               /\ log = Append(SubSeq(full, 1, n), Event(full[n].stage, "failed"))

\* C18: within one invocation the stages run strictly in the order decode,
\* mix, encode, transcode: the mix starts only after the voice decode and
\* every asset decode of that invocation have completed, the encode only
\* after the mix has completed, and blobToBase64 is only applied to a blob a
\* completed encode produced; every invocation decodes, mixes and encodes
\* afresh: no buffer of an earlier invocation is used.
C18_StagesInOrder ==
    /\ \A r \in DOMAIN generations :
         LET g == generations[r]
         IN  InFlight(g) =>
               /\ InOrder(g.log, g.assets)
               /\ g.mixedBuffer # Null =>
                    /\ g.mixedBuffer.run = r
                    /\ \A b \in g.mixedBuffer.inputs : b.run = r
               /\ \A b \in g.buffers : b.run = r
    /\ audioBlob # Null =>
         /\ audioBlob.run = Len(generations)
         /\ generations[audioBlob.run].published
    /\ transcoded # Null =>
         /\ transcoded.run \in DOMAIN generations
         /\ generations[transcoded.run].published
         /\ transcoded.type = "audio/mp3"

C18_Witness ==
    /\ transcoded # Null
    /\ transcoded.run = 1
    /\ Len(generations) = 2
    /\ generations[2].pc = "closing"
    /\ generations[2].published
    /\ generations[2].assets = {"background", "intro", "outro"}
    /\ Len(generations[2].log) = 14

\* C19: at most one mixing pipeline is in flight at any time:
\* handleGenerateAudio cannot be started again while an earlier invocation
\* has not finished, and loading is true for as long as one is in flight.
C19_OnePipelineInFlight ==
    /\ Cardinality({r \in DOMAIN generations : InFlight(generations[r])}) <= 1
    /\ (\E r \in DOMAIN generations : InFlight(generations[r])) => loading
    /\ (\A r \in DOMAIN generations :
            generations[r].pc = "done" /\ generations[r].ctx # "open") => ~loading

C19_Witness ==
    /\ Len(generations) = 2
    /\ generations[1].pc = "done"
    /\ InFlight(generations[2])
    /\ loading
    /\ emailSend.pc = "transcoding"

----------------------------------------------------------------------------
(* The background loop: claim C20 *)

dB == DurationOrZero(mixArgs.backgroundBuffer)

\* C20: a background shorter than dV is looped without gap over the whole
\* voice span: it is heard from dI to dI + dV, at time t at the buffer
\* offset (t - dI) mod backgroundDuration, which gives at least
\* ceil(dV / backgroundDuration) repetitions; a background longer than dV is
\* truncated at dI + dV.
C20_BackgroundLoopedOrTruncated ==
    (Returned /\ mixArgs.backgroundBuffer # Null) =>
        \A p \in PlayedOf("background") :
            /\ dB < dV =>
                 /\ p.from = dI
                 /\ p.to = dI + dV
                 /\ p.lastOffset = (dV - 1) % dB
                 /\ CeilDiv(p.to - p.from, dB) >= CeilDiv(dV, dB)
            /\ (dB > dV /\ p.gain.v > 0) => (p.from >= p.to \/ p.to <= dI + dV)

----------------------------------------------------------------------------
(* The render destination and the scheduling guard: claims C23 and C24 *)

\* C23: the offline render destination always has 2 channels, rate 44100
\* and a length of at least 1 sample, for every input, an absent intro and
\* outro with a zero-length voice included; its length is
\* ceil(max(dI + dV + dO, 0.001) * 44100).
C23_RenderDestination ==
    mixPc # "idle" =>
        LET floored == IF dI + dV + dO > MinDuration THEN dI + dV + dO ELSE MinDuration
        IN  /\ offlineCtx.ok
            /\ offlineCtx.numberOfChannels = 2
            /\ offlineCtx.sampleRate = 44100
            /\ offlineCtx.length >= 1
            /\ offlineCtx.length * OutTick >= floored
            /\ (offlineCtx.length - 1) * OutTick < floored

C23_Witness ==
    /\ mixPc = "done"
    /\ mixArgs.introBuffer = Null /\ mixArgs.outroBuffer = Null
    /\ mixArgs.voiceBuffer.length = 0
    /\ offlineCtx.length = 45
    /\ renderedBuffer.length = 45
    /\ renderedBuffer.numberOfChannels = 2

\* C24: a source's stop is scheduled only when a stop time is given and it is
\* strictly greater than the start time, so that a zero-length voice causes
\* no scheduling error; only the background source is given a stop time or
\* marked as looping.
C24_StopOnlyAfterStart ==
    mixPc # "idle" =>
        /\ mixPc # "error"
        /\ \A i \in 1..Len(offlineCtx.sources) :
             LET s == offlineCtx.sources[i]
             IN  /\ \A t \in s.stop : t > s.start
                 /\ s.track # "background" => (s.stop = {} /\ ~s.loop)
                 /\ s.track = "background" =>
                      /\ s.loop
                      /\ s.stop = IF dV > 0 THEN {dI + dV} ELSE {}

C24_Witness ==
    /\ mixPc = "done"
    /\ mixArgs.voiceBuffer.length = 0
    /\ mixArgs.introBuffer # Null
    /\ mixArgs.outroBuffer # Null
    /\ \E s \in SourcesOf("background") : s.stop = {} /\ s.start = dI /\ s.loop

----------------------------------------------------------------------------
(* The earlier two-track mixer *)

LegacyMixed == codecPc = "legacyMixed"

\* A sample that is a number in [-1, 1]
InUnitRange(x) == x.den > 0 /\ x.num <= x.den /\ x.num >= 0 - x.den

\* voice + music * volume * fade as an unreduced fraction, fade being
\* fadeNum / fadeDen, for finite operands
WeightedSum(voiceSample, musicSample, musicVolume, fadeNum, fadeDen) ==
    Ratio(voiceSample.num * musicSample.den * musicVolume.den * fadeDen
            + musicSample.num * musicVolume.num * fadeNum * voiceSample.den,
          voiceSample.den * musicSample.den * musicVolume.den * fadeDen)

\* C25: mixAudioBuffers returns the voice buffer itself when there is no
\* music; otherwise it returns a buffer of the voice buffer's length and
\* sample rate in which every sample lies in [-1, 1] and, where the music
\* sample is finite, is the clamped sum of the unscaled voice sample and the
\* music sample at index i mod musicLength times the volume, the music term
\* being multiplied by remaining / (2 * sampleRate) in the last 2 seconds.
C25_LegacyMixClampedAndFaded ==
    LegacyMixed =>
        LET voiceBuffer == legacyMix.voiceBuffer
            musicBuffer == legacyMix.musicBuffer
            mixed == legacyMix.mixed
            fadeLength == 2 * voiceBuffer.sampleRate
        IN  IF musicBuffer = Null THEN mixed = voiceBuffer
            ELSE /\ mixed.length = voiceBuffer.length
                 /\ mixed.sampleRate = voiceBuffer.sampleRate
                 /\ \A c \in 1..mixed.numberOfChannels :
                      /\ Len(mixed.channels[c]) = voiceBuffer.length
                      /\ \A k \in 1..voiceBuffer.length :
                           LET i == k - 1
                               remaining == voiceBuffer.length - i
                               voiceSample == voiceBuffer.channels[1][k]
                               musicSample ==
                                   musicBuffer.channels[((c - 1) % musicBuffer.numberOfChannels) + 1]
                                                       [(i % musicBuffer.length) + 1]
                               sum == IF remaining < fadeLength
                                        THEN WeightedSum(voiceSample, musicSample,
                                                         legacyMix.musicVolume,
                                                         remaining, fadeLength)
                                        ELSE WeightedSum(voiceSample, musicSample,
                                                         legacyMix.musicVolume, 1, 1)
                           IN  /\ InUnitRange(mixed.channels[c][k])
                               /\ musicSample.den # 0 =>
                                    mixed.channels[c][k] =
                                        (IF sum.num > sum.den THEN Ratio(1, 1)
                                         ELSE IF sum.num < 0 - sum.den THEN Ratio(0 - 1, 1)
                                         ELSE sum)

\* The claim restricted to calls whose music holds only finite samples
LegacyMixOfFiniteMusic ==
    (LegacyMixed /\ legacyMix.musicBuffer # Null
       /\ \E c \in 1..legacyMix.musicBuffer.numberOfChannels :
            \E k \in 1..legacyMix.musicBuffer.length :
                legacyMix.musicBuffer.channels[c][k].den = 0)
    \/ C25_LegacyMixClampedAndFaded

----------------------------------------------------------------------------
(* blobToBase64 *)

\* C21: the promise of a blobToBase64 call is settled by exactly one call of
\* resolve or reject. When the read succeeded it is fulfilled by the only
\* settling call made, with the text after the first comma of the data URL:
\* no comma and nothing of the prefix in it, the base64 of the blob's bytes.
\* When the read failed it is rejected and resolve is never called.
C21_SettlesOnceWithBody ==
    /\ promise.state = "pending" => (fileReader.readyState = "LOADING" /\ promise.calls = <<>>)
    /\ promise.state \in {"fulfilled", "rejected"} =>
         /\ fileReader.readyState = "DONE"
         /\ promise.calls # <<>>
         /\ promise.state = promise.calls[1]
         /\ IF fileReader.result # Null
              THEN /\ promise.calls = <<"fulfilled">>
                   /\ promise.value # Undefined
                   /\ fileReader.result = DataUrlPrefix \o <<Comma>> \o promise.value
                   /\ \A i \in 1..Len(promise.value) : promise.value[i] \in 0..Pad
                   /\ Atob(promise.value) = [ok |-> TRUE, bytes |-> fileReader.blob.bytes]
              ELSE /\ promise.state = "rejected"
                   /\ \A i \in 1..Len(promise.calls) : promise.calls[i] = "rejected"

C21_Witness ==
    /\ promise.state = "fulfilled"
    /\ Len(fileReader.blob.bytes) = MaxBlobBytes
    /\ Len(promise.value) = 4

----------------------------------------------------------------------------
(* handleSendEmail *)

\* blobToBase64 has resolved and the payload is handed to the endpoint
PayloadHandedOver == emailSend.pc = "transcoding" /\ emailSend'.pc = "posting"

\* C22: whenever handleSendEmail hands a payload to the delivery endpoint,
\* the payload has a filename and a non-blank recipient, and its attachment
\* is the MP3 blob of the most recent invocation of handleGenerateAudio,
\* which has published it: no later invocation has started or failed since.
C22_SendsLatestDeliverable ==
    [][PayloadHandedOver =>
         /\ posted'.attachmentName # ""
         /\ Trim(posted'.to) # ""
         /\ posted'.attachmentBase64 # Null
         /\ posted'.attachmentBase64.type = "audio/mp3"
         /\ posted'.attachmentBase64.run = Len(generations)
         /\ generations[Len(generations)].published]_vars

\* What the handler does guarantee: the attachment is the blob that was
\* stored when Send was clicked, published by the invocation that made it
SendsClickedDeliverable ==
    [][PayloadHandedOver =>
         /\ posted'.attachmentName # ""
         /\ Trim(posted'.to) # ""
         /\ posted'.attachmentBase64 = transcoded
         /\ transcoded # Null
         /\ generations[transcoded.run].published]_vars

----------------------------------------------------------------------------
(* Previews and generation *)

\* C28: no preview is playing while an invocation of handleGenerateAudio is
\* in flight: for as long as loading is true, playingPreview is null.
C28_NoPreviewWhileGenerating == loading => playingPreview = "null"

\* handleGenerateAudio does stop the preview when it starts
GenerateStopsPreview ==
    [][(~loading /\ loading') => playingPreview' = "null"]_vars

----------------------------------------------------------------------------
(* Termination of handleGenerateAudio *)

\* C26: every started invocation of handleGenerateAudio ends with loading
\* back to false, whether its awaited operations resolve or reject: whenever
\* loading is true it is false again later.
C26_LoadingEventuallyFalse == loading ~> ~loading

\* The same when the context's close() resolves: an invocation whose close
\* has not been rejected ends with loading false
LoadingFalseUnlessCloseRejected ==
    loading ~> (~loading \/ \E r \in DOMAIN generations :
                               generations[r].pc = "done" /\ generations[r].ctx = "open")

----------------------------------------------------------------------------
(* Result and error *)

\* C27: the published result and the error exclude each other: audioUrl and
\* error are never both non-null, and once the latest invocation of
\* handleGenerateAudio has finished exactly one of them is non-null.
C27_ResultXorError ==
    /\ ~(audioUrl # Null /\ error # "null")
    /\ (generations # <<>> /\ generations[Len(generations)].pc = "done") =>
         (audioUrl # Null) # (error # "null")

----------------------------------------------------------------------------
(* The music slots *)

\* loadData has set the slot list and every handler called on the slots
\* has returned
SlotsQuiet == Mounted /\ \A k \in DOMAIN slotOps : slotOps[k].kind = "done"

\* C29: once loadData and every upload and delete on music_0..music_2 has
\* completed, each slot of musicSlots is non-null exactly when the store
\* holds a file under that slot's key.
C29_SlotsMatchStore ==
    SlotsQuiet => \A i \in Slots : (musicSlots[i] # Null) <=> (store[i] # Null)

\* A delete of slot i is committed while slot i is the selected one
DeleteOfSelectedCommits ==
    \E i \in Slots :
        /\ selectedMusicIndex = i
        /\ store[i] # Null /\ store'[i] = Null

\* handleGenerateAudio calls the mixer
MixerCalled == ~slotMix.called /\ slotMix'.called

\* The handler of the Generate click that calls the mixer in this step
Generating == CHOOSE k \in DOMAIN slotOps : slotOps[k].kind = "generate"

\* C30: the mixer is handed a background track only when, in the state
\* handleGenerateAudio was called in, a slot was selected and that slot held
\* a file, and it schedules a background source only when it is handed one:
\* no slot or an empty slot selected gives a mix without background source.
\* A committed delete of the selected slot's file sets selectedMusicIndex
\* to -1.
C30_BackgroundOnlyFromSelectedSlot ==
    [][/\ MixerCalled =>
            /\ (slotMix'.backgroundBuffer # Null)
                 <=> (/\ slotOps[Generating].selectedMusicIndex # 0 - 1
                      /\ slotOps[Generating].musicSlots[
                             slotOps[Generating].selectedMusicIndex] # Null)
            /\ (\E n \in DOMAIN slotMix'.tracks : slotMix'.tracks[n] = "background")
                 <=> slotMix'.backgroundBuffer # Null
       /\ DeleteOfSelectedCommits => selectedMusicIndex' = 0 - 1]_vars

\* The part about the mixer alone
BackgroundAsSeenAtClick ==
    [][MixerCalled =>
         /\ (slotMix'.backgroundBuffer # Null)
              <=> (/\ slotOps[Generating].selectedMusicIndex # 0 - 1
                   /\ slotOps[Generating].musicSlots[
                          slotOps[Generating].selectedMusicIndex] # Null)
         /\ (\E n \in DOMAIN slotMix'.tracks : slotMix'.tracks[n] = "background")
              <=> slotMix'.backgroundBuffer # Null]_vars
====
